---- MODULE Spec2Model ----
(***************************************************************************)
(* MASIS orchestration core: the LangGraph state machine of graph.py       *)
(* (supervisor_plan, supervisor_route, researcher, skeptic, synthesizer,   *)
(* hitl_pause) over the run state of state.py, and the dependency          *)
(* scheduler _find_next_task of agents/supervisor.py.                      *)
(***************************************************************************)
EXTENDS Integers, Sequences, FiniteSets, TLC

VARIABLES
    pc,          \* the graph node that runs next ("END" / "RAISED" when the run is over)
    state,       \* the run state dict flowing through the graph (MASISState fields)
    cfg,         \* get_config(): hitl.enabled, agents.max_skeptic_challenges, agents.max_research_iterations
    runs,        \* history: number of specialist node executions in this run
    routed,      \* history: what the last supervisor_route call did
    loopbacks,   \* history: number of loop-backs supervisor_route has routed in this run
    critiqued,   \* history: confidence_score of the most recent critique pass (-1 while none has completed)
    failure,     \* history: why the run raised ("none" while it has not)
    fn_plan,     \* scheduler harness: the TaskPlan handed to _find_next_task
    fn_before,   \* scheduler harness: the plan as it was before the most recent call
    fn_ret,      \* scheduler harness: sequence of returned positions (0 = None), one per call
    fn_pre,      \* scheduler harness: the plan before the first call
    mm_log,      \* merge harness: the stored log (messages are numbered in order of appending)
    mm_total,    \* merge harness: number of messages appended so far
    mm_batch,    \* merge harness: size of the batch of the most recent call
    rrf_sem,     \* fusion harness: semantic_results (chunk_id of each document, in rank order)
    rrf_kw,      \* fusion harness: keyword_results
    rrf_fused,   \* fusion harness: the fused dict, its entries in insertion order
    rrf_result,  \* fusion harness: the list hybrid_search returned (keys)
    rrf_called,  \* fusion harness: hybrid_search has run
    rc,          \* cache harness: _search_cache, the clock and the most recent hybrid_search call
    fan,         \* fan-out harness: the two search futures of hybrid_search and the outcomes of its calls
    sy,          \* confidence harness: the three inputs of final_confidence and its value
    ce,          \* citation harness: retrieved chunks, narrative references, the report's citations, the audits and their to_dict() forms
    rl           \* rate limiter harness: the RateLimiter, the clock, the calling threads, the grants so far

runvars == <<pc, state, cfg, runs, routed, loopbacks, critiqued, failure>>
fnvars == <<fn_plan, fn_before, fn_ret, fn_pre>>
mmvars == <<mm_log, mm_total, mm_batch>>
rrfvars == <<rrf_sem, rrf_kw, rrf_fused, rrf_result, rrf_called>>
auxvars == <<rc, fan, sy, ce, rl>>
vars == <<pc, state, cfg, runs, routed, loopbacks, critiqued, failure,
          fn_plan, fn_before, fn_ret, fn_pre,
          mm_log, mm_total, mm_batch, rrf_sem, rrf_kw, rrf_fused, rrf_result,
          rrf_called, rc, fan, sy, ce, rl>>

----------------------------------------------------------------------------
(* Bounds of the model *)

MaxIterations == 3        \* max_iterations is drawn from 0..MaxIterations
MaxPlanLen == 2           \* longest free-form plan the planner returns
MaxChallenges == 2        \* the non-zero value of agents.max_skeptic_challenges
MaxResearch == 1          \* the value of agents.max_research_iterations
MaxChunks == 1            \* retrieved chunks accumulated in a run
MaxCalls == 2             \* consecutive _find_next_task calls in the scheduler harness
MaxFnLen == 2             \* plan length in the scheduler harness
MaxAppended == 60         \* messages appended in the merge harness
MaxBatch == 45            \* largest batch of one _merge_messages call
LongPlanLen == 26         \* length of the long plan the planner may return
LongIterations == 25      \* max_iterations of the long run
MaxResults == 4           \* length of a retrieval result list in the fusion harness
MaxClock == 302           \* the clock of the cache harness stops here (seconds)
MaxCacheResults == 1      \* length of a retrieval result list in the cache harness
MaxStoreLen == 2          \* documents the vector store ranks for the query in the fan-out harness
ConfGrid == 4             \* each confidence input is drawn from ConfGrid + 1 points of [0, 1]
MaxCiteChunks == 2        \* retrieved chunks handed to _build_citations
MaxRef == 3               \* largest source number in a narrative
MaxRefs == 3              \* [Source N] references in a narrative
MaxAuditChunks == 1       \* retrieved chunks of an audited report
MaxCitations == 2         \* citations of an audited report
MaxEvidence == 2          \* evidence entries of one citation
MaxAudits == 2            \* validate_report calls on one report
MaxUncited == 1           \* uncited statements found in a report's detailed_analysis
MaxThreads == 2           \* threads that call RateLimiter.acquire
MaxRpm == 2               \* max_rpm is drawn from 1..MaxRpm
MaxLimiterClock == 122    \* the clock of the rate limiter harness stops here (seconds)

(* Program constants *)

MAX_RETRIES == 2          \* supervisor.py:170  task.retries < 2
NoTask == 0               \* current_task_id = None; also an id no task of a plan carries
MAX_MESSAGES == 50        \* state.py:33
KEEP_FIRST == 5           \* state.py:36  merged[:5]
RRF_K == 60               \* rag.py:256
TOP_K_FINAL == 6          \* config.py:42  top_k_final
CACHE_TTL == 300          \* rag.py:66  _RetrievalCache(ttl_seconds=300)
TOP_K_SEMANTIC == 8       \* config.py:40  top_k_semantic
TOP_K_KEYWORD == 5        \* config.py:41  top_k_keyword
RATE_WINDOW == 60         \* llm_utils.py:43  now - 60

Roles == {"researcher", "skeptic", "synthesizer"}
TaskStatus == {"pending", "in_progress", "completed", "failed", "needs_human_input"}
ConfScores == {0, 90}     \* critique.confidence_score in hundredths

Max2(a, b) == IF a >= b THEN a ELSE b

----------------------------------------------------------------------------
(* SubTask and the scheduler (agents/supervisor.py _find_next_task) *)

SubTask(id, role, deps) ==
    [id |-> id, role |-> role, status |-> "pending", deps |-> deps,
     retries |-> 0, result |-> FALSE]

CompletedIds(tasks) ==
    {tasks[i].id : i \in {j \in DOMAIN tasks : tasks[j].status = "completed"}}

DepsMet_Any(task, completed_ids) ==
    task.deps = {} \/ \E d \in task.deps : d \in completed_ids

DepsMet(task, completed_ids) == \A d \in task.deps : d \in completed_ids

RECURSIVE ScanPending(_, _, _)
ScanPending(tasks, completed_ids, i) ==
    IF i > Len(tasks) THEN 0
    ELSE IF tasks[i].status = "pending" /\ DepsMet(tasks[i], completed_ids) THEN i
    ELSE ScanPending(tasks, completed_ids, i + 1)

RECURSIVE ScanPendingLast(_, _, _)
ScanPendingLast(tasks, completed_ids, i) ==
    IF i < 1 THEN 0
    ELSE IF tasks[i].status = "pending" /\ DepsMet(tasks[i], completed_ids) THEN i
    ELSE ScanPendingLast(tasks, completed_ids, i - 1)

FindNextTask_Last(tasks) == ScanPendingLast(tasks, CompletedIds(tasks), Len(tasks))

\* position of the task _find_next_task returns, 0 for None
FindNextTask(tasks) == ScanPending(tasks, CompletedIds(tasks), 1)

FindNextPlan_NoFlip(tasks) == tasks

\* the plan after the call: the returned task is flipped to in_progress
FindNextPlan(tasks) ==
    LET i == FindNextTask(tasks)
    IN  IF i = 0 THEN tasks ELSE [tasks EXCEPT ![i].status = "in_progress"]

----------------------------------------------------------------------------
(* Run state (state.py MASISState) and configuration (config.py) *)

NoCritique == [present |-> FALSE, passes_review |-> FALSE, confidence_score |-> 0]
NoReport == [present |-> FALSE, confidence |-> "none", skeptic_confidence |-> 0]

InitialState(max_iter) ==
    [clarified_query |-> "",
     plan_set |-> FALSE, sub_tasks |-> <<>>, current_task_id |-> NoTask,
     messages |-> <<>>,
     retrieved_chunks |-> 0, research_iterations |-> 0,
     critique |-> NoCritique, skeptic_rounds |-> 0,
     citations |-> 0, final_report |-> NoReport,
     hitl_request |-> FALSE, hitl_response |-> FALSE, awaiting_human |-> FALSE,
     next_agent |-> "none", should_end |-> FALSE, error_log |-> 0,
     iteration_count |-> 0, max_iterations |-> max_iter]

\* HITL_ENABLED on or off, MAX_SKEPTIC_CHALLENGES 0 or MaxChallenges,
\* MAX_RESEARCH_ITERATIONS MaxResearch
Configs ==
    [hitl_enabled : BOOLEAN,
     max_skeptic_challenges : {0, MaxChallenges},
     max_research_iterations : {MaxResearch}]

----------------------------------------------------------------------------
(* What the planner (invoke_llm_structured(..., TaskPlan)) may return.     *)
(* Task i of a plan carries id i; a dependency on 0 is a dependency on an  *)
(* id that no task of the plan carries.                                     *)

\* a planned task: pending with depends_on empty, an absent id, the previous
\* task or itself; or already failed with retries 0 or MAX_RETRIES
TaskShapes ==
    [role : Roles, kind : {"free", "absent", "prev", "self", "failed", "exhausted"}]

PlannedTask(i, shape) ==
    [id |-> i, role |-> shape.role,
     status |-> IF shape.kind \in {"failed", "exhausted"} THEN "failed" ELSE "pending",
     deps |-> CASE shape.kind = "absent" -> {0}
                [] shape.kind = "prev" -> {i - 1}
                [] shape.kind = "self" -> {i}
                [] OTHER -> {},
     retries |-> IF shape.kind = "exhausted" THEN MAX_RETRIES ELSE 0,
     result |-> FALSE]

HumanTask(i) ==
    [id |-> i, role |-> "researcher", status |-> "needs_human_input", deps |-> {},
     retries |-> 0, result |-> FALSE]

\* plans of n tasks none of which asks for human input
WorkPlans(n) ==
    {[i \in 1..n |-> PlannedTask(i, f[i])] : f \in [1..n -> TaskShapes]}

\* plans of n tasks in which task h is flagged needs_human_input (rule 4 of
\* DECOMPOSITION_SYSTEM) and the others are pending researcher tasks, each
\* free or depending on its predecessor
HitlPlans(n) ==
    {[i \in 1..n |-> IF i = f.h THEN HumanTask(i)
                     ELSE SubTask(i, "researcher", IF f.chain[i] THEN {i - 1} ELSE {})] :
        f \in [h : 1..n, chain : [1..n -> BOOLEAN]]}

\* the plan DECOMPOSITION_SYSTEM asks for: researcher -> skeptic -> synthesizer
StandardPlan ==
    <<SubTask(1, "researcher", {}), SubTask(2, "skeptic", {1}),
      SubTask(3, "synthesizer", {2})>>

\* a long plan: LongPlanLen independent researcher tasks (TaskPlan.sub_tasks
\* has no maximum length)
LongPlan == [i \in 1..LongPlanLen |-> SubTask(i, "researcher", {})]

PlannerOutputs ==
    UNION {WorkPlans(n) \cup HitlPlans(n) : n \in 0..MaxPlanLen}
        \cup {StandardPlan, LongPlan}

----------------------------------------------------------------------------
(* Conditional edges of the graph (graph.py) *)

ShouldContinueAfterPlan(s) ==
    IF s.awaiting_human THEN "hitl_pause"
    ELSE IF s.next_agent # "none" THEN s.next_agent
    ELSE "END"

ShouldContinueAfterRoute_IgnoreEnd(s) ==
    IF s.awaiting_human THEN "hitl_pause"
    ELSE IF s.next_agent # "none" THEN s.next_agent
    ELSE "END"

ShouldContinueAfterRoute(s) ==
    IF s.should_end THEN "END"
    ELSE IF s.awaiting_human THEN "hitl_pause"
    ELSE IF s.next_agent # "none" THEN s.next_agent
    ELSE "END"

\* a specialist that hands control to the next specialist without routing
AfterAgent_Direct(s) ==
    IF s.should_end THEN "END"
    ELSE IF s.next_agent # "none" THEN s.next_agent ELSE "supervisor_route"

AfterAgent(s) == IF s.should_end THEN "END" ELSE "supervisor_route"

----------------------------------------------------------------------------
(* supervisor_plan (agents/supervisor.py) *)

HitlTasks(tasks) == {i \in DOMAIN tasks : tasks[i].status = "needs_human_input"}

NeedsHitl_IgnoreConfig(tasks, config) == HitlTasks(tasks) # {}

NeedsHitl(tasks, config) == HitlTasks(tasks) # {} /\ config.hitl_enabled

PlanResult(s, tasks, config) ==
    IF NeedsHitl(tasks, config)
    THEN [s EXCEPT !.clarified_query = "rewritten",
                   !.plan_set = TRUE, !.sub_tasks = tasks,
                   !.hitl_request = TRUE, !.awaiting_human = TRUE,
                   !.messages = Append(@, "supervisor")]
    ELSE LET first == FindNextTask(tasks)
             after == FindNextPlan(tasks)
         IN  [s EXCEPT !.clarified_query = "rewritten",
                       !.plan_set = TRUE, !.sub_tasks = after,
                       !.current_task_id = IF first = 0 THEN NoTask ELSE after[first].id,
                       !.next_agent = IF first = 0 THEN "none" ELSE after[first].role,
                       !.messages = Append(@, "supervisor")]

\* the node: any external call (query rewrite, decomposition) may still fail
\* after the call-boundary retries, which raises out of graph.invoke
SupervisorPlan ==
    /\ pc = "supervisor_plan"
    /\ \/ /\ pc' = "RAISED"
          /\ failure' = "external_call"
          /\ UNCHANGED state
       \/ \E tasks \in PlannerOutputs :
            /\ state' = PlanResult(state, tasks, cfg)
            /\ pc' = ShouldContinueAfterPlan(state')
            /\ UNCHANGED failure
    /\ routed' = "none"
    /\ UNCHANGED <<cfg, runs, loopbacks, critiqued, fnvars, mmvars, rrfvars, auxvars>>

----------------------------------------------------------------------------
(* supervisor_route (agents/supervisor.py) *)

CeilingReached_Late(s) == s.iteration_count > s.max_iterations

CeilingReached(s) == s.iteration_count >= s.max_iterations

\* a routing step that leaves the current task as the specialist left it
MarkCurrentComplete_Skip(tasks, current) == tasks

\* "Mark current task complete if it was in progress"
MarkCurrentComplete(tasks, current) ==
    IF current = NoTask THEN tasks
    ELSE [i \in DOMAIN tasks |->
            IF tasks[i].id = current /\ tasks[i].status = "in_progress"
            THEN [tasks[i] EXCEPT !.status = "completed"]
            ELSE tasks[i]]

Retryable_NoLimit(task) == task.status = "failed"

Retryable(task) == task.status = "failed" /\ task.retries < MAX_RETRIES

RECURSIVE ScanRetry(_, _)
ScanRetry(tasks, i) ==
    IF i > Len(tasks) THEN 0
    ELSE IF Retryable(tasks[i]) THEN i
    ELSE ScanRetry(tasks, i + 1)

\* position of the first failed task that is retried, 0 when there is none
RetryIdx(tasks) == ScanRetry(tasks, 1)

\* the retried task is taken out of the plan and queued again at its end
RetryPlan_Requeue(tasks, i) ==
    Append([j \in 1..(Len(tasks) - 1) |-> IF j < i THEN tasks[j] ELSE tasks[j + 1]],
           [tasks[i] EXCEPT !.retries = @ + 1, !.status = "pending"])

RetryPlan(tasks, i) ==
    [tasks EXCEPT ![i].retries = @ + 1, ![i].status = "pending"]

\* a loop-back condition that ignores the number of critique passes
LoopBackDue_AnyRound(s, config) ==
    /\ s.critique.present
    /\ ~s.critique.passes_review

LoopBackDue(s, config) ==
    /\ s.critique.present
    /\ ~s.critique.passes_review
    /\ s.skeptic_rounds < config.max_skeptic_challenges

\* SubTask() draws a fresh uuid: an id that no task of the plan carries
FreshId(tasks) ==
    1 + Max2(Len(tasks),
             IF tasks = <<>> THEN 0
             ELSE CHOOSE m \in {tasks[i].id : i \in DOMAIN tasks} :
                     \A i \in DOMAIN tasks : tasks[i].id <= m)

LoopBackPlan_NoDep(tasks) ==
    LET new_id == FreshId(tasks)
        with_new == Append(tasks, SubTask(new_id, "researcher", {}))
    IN  Append(with_new, SubTask(FreshId(with_new), "skeptic", {}))

\* a loop-back whose re-validation task depends on itself
LoopBackPlan_SelfDep(tasks) ==
    LET new_id == FreshId(tasks)
        with_new == Append(tasks, SubTask(new_id, "researcher", {}))
    IN  Append(with_new, SubTask(FreshId(with_new), "skeptic", {FreshId(with_new)}))

LoopBackPlan(tasks) ==
    LET new_id == FreshId(tasks)
        new_task == SubTask(new_id, "researcher", {})
        with_new == Append(tasks, new_task)
        skeptic_task == SubTask(FreshId(with_new), "skeptic", {new_id})
    IN  Append(with_new, skeptic_task)

\* which branch of supervisor_route is taken in state s
RouteBranch(s, config) ==
    IF ~s.plan_set THEN "noplan"
    ELSE IF CeilingReached(s) THEN "ceiling"
    ELSE LET marked == MarkCurrentComplete(s.sub_tasks, s.current_task_id)
         IN  IF RetryIdx(marked) # 0 THEN "retry"
             ELSE IF LoopBackDue(s, config) THEN "loopback"
             ELSE IF FindNextTask(marked) = 0 THEN "finished"
             ELSE "scheduled"

RouteResult(s, config) ==
    LET branch == RouteBranch(s, config)
        marked == MarkCurrentComplete(s.sub_tasks, s.current_task_id)
    IN  CASE branch = "noplan" ->
               [s EXCEPT !.should_end = TRUE, !.error_log = 1]
          [] branch = "ceiling" ->
               [s EXCEPT !.should_end = TRUE,
                         !.messages = Append(@, "supervisor")]
          [] branch = "retry" ->
               LET r == RetryIdx(marked)
               IN  [s EXCEPT !.sub_tasks = RetryPlan(marked, r),
                             !.current_task_id = marked[r].id,
                             !.next_agent = marked[r].role,
                             !.iteration_count = @ + 1,
                             !.messages = Append(@, "supervisor")]
          [] branch = "loopback" ->
               [s EXCEPT !.sub_tasks = LoopBackPlan(marked),
                         !.current_task_id = FreshId(marked),
                         !.next_agent = "researcher",
                         !.iteration_count = @ + 1,
                         !.critique = NoCritique,
                         !.messages = Append(@, "supervisor")]
          [] branch = "finished" ->
               [s EXCEPT !.sub_tasks = marked,
                         !.should_end = TRUE,
                         !.iteration_count = @ + 1,
                         !.messages = Append(@, "supervisor")]
          [] OTHER ->
               LET n == FindNextTask(marked)
               IN  [s EXCEPT !.sub_tasks = FindNextPlan(marked),
                             !.current_task_id = marked[n].id,
                             !.next_agent = marked[n].role,
                             !.iteration_count = @ + 1,
                             !.messages = Append(@, "supervisor")]

SupervisorRoute ==
    /\ pc = "supervisor_route"
    /\ state' = RouteResult(state, cfg)
    /\ routed' = RouteBranch(state, cfg)
    /\ loopbacks' = IF RouteBranch(state, cfg) = "loopback" THEN loopbacks + 1
                    ELSE loopbacks
    /\ pc' = ShouldContinueAfterRoute(state')
    /\ UNCHANGED <<cfg, runs, critiqued, failure, fnvars, mmvars, rrfvars, auxvars>>

----------------------------------------------------------------------------
(* Specialist nodes (agents/researcher.py, skeptic.py, synthesizer.py) *)

\* "for task in plan.sub_tasks: if task.task_id == current_task_id: ... COMPLETED"
CompleteCurrent(tasks, current) ==
    IF current = NoTask THEN tasks
    ELSE [i \in DOMAIN tasks |->
            IF tasks[i].id = current
            THEN [tasks[i] EXCEPT !.status = "completed", !.result = TRUE]
            ELSE tasks[i]]

ResearchCapped(s, config) == s.research_iterations >= config.max_research_iterations

ResearcherResult(s, config, chunks) ==
    IF ResearchCapped(s, config)
    THEN [s EXCEPT !.messages = Append(@, "researcher")]
    ELSE [s EXCEPT !.retrieved_chunks = @ + chunks,
                   !.research_iterations = @ + 1,
                   !.sub_tasks = CompleteCurrent(@, s.current_task_id),
                   !.messages = Append(@, "researcher")]

\* hybrid_search or invoke_llm may raise (invoke_llm after 3 attempts);
\* researcher_node and _wrap_node catch nothing
ResearcherNode ==
    /\ pc = "researcher"
    /\ runs' = runs + 1
    /\ \/ /\ ~ResearchCapped(state, cfg)
          /\ pc' = "RAISED"
          /\ failure' = "external_call"
          /\ UNCHANGED state
       \/ \E chunks \in 0..(MaxChunks - state.retrieved_chunks) :
            /\ state' = ResearcherResult(state, cfg, chunks)
            /\ pc' = AfterAgent(state')
            /\ UNCHANGED failure
    /\ routed' = "none"
    /\ UNCHANGED <<cfg, loopbacks, critiqued, fnvars, mmvars, rrfvars, auxvars>>

HasResearch(s) == \E i \in DOMAIN s.messages : s.messages[i] = "researcher"

SkepticResult(s, passes, score) ==
    IF ~HasResearch(s)
    THEN [s EXCEPT !.critique = [present |-> TRUE, passes_review |-> FALSE,
                                 confidence_score |-> 0],
                   !.skeptic_rounds = @ + 1,
                   !.messages = Append(@, "skeptic")]
    ELSE [s EXCEPT !.critique = [present |-> TRUE, passes_review |-> passes,
                                 confidence_score |-> score],
                   !.skeptic_rounds = @ + 1,
                   !.sub_tasks = CompleteCurrent(@, s.current_task_id),
                   !.messages = Append(@, "skeptic")]

SkepticNode ==
    /\ pc = "skeptic"
    /\ runs' = runs + 1
    /\ \/ /\ HasResearch(state)
          /\ pc' = "RAISED"
          /\ failure' = "external_call"
          /\ UNCHANGED state
       \/ \E passes \in BOOLEAN, score \in ConfScores :
            /\ state' = SkepticResult(state, passes, score)
            /\ pc' = AfterAgent(state')
            /\ UNCHANGED failure
    /\ critiqued' = IF pc' = "RAISED" THEN critiqued
                    ELSE state'.critique.confidence_score
    /\ routed' = "none"
    /\ UNCHANGED <<cfg, loopbacks, fnvars, mmvars, rrfvars, auxvars>>

\* final_confidence in ten-thousandths: 0.60 * skeptic_confidence, plus the
\* citation terms, which are 0 whenever the node gets past line 137
ConfidenceLevel(final) ==
    IF final >= 8000 THEN "high" ELSE IF final >= 5000 THEN "medium" ELSE "low"

SynthesizerResult(s) ==
    LET skeptic_confidence == IF s.critique.present THEN s.critique.confidence_score ELSE 0
    IN  [s EXCEPT !.final_report = [present |-> TRUE,
                                    confidence |-> ConfidenceLevel(60 * skeptic_confidence),
                                    skeptic_confidence |-> skeptic_confidence],
                  !.citations = 0,
                  !.should_end = TRUE,
                  !.sub_tasks = CompleteCurrent(@, s.current_task_id),
                  !.messages = Append(@, "synthesizer")]

\* cited: number of citations _build_citations extracts from the narrative;
\* with one or more, "c.source_chunk_id" (line 137) raises AttributeError
\* because Citation has no such field; invoke_llm may raise as well
SynthesizerNode ==
    /\ pc = "synthesizer"
    /\ runs' = runs + 1
    /\ \/ /\ pc' = "RAISED"
          /\ failure' = "external_call"
          /\ UNCHANGED state
       \/ \E cited \in 0..state.retrieved_chunks :
            IF cited > 0
            THEN pc' = "RAISED" /\ failure' = "attribute_error" /\ UNCHANGED state
            ELSE /\ state' = SynthesizerResult(state)
                 /\ pc' = AfterAgent(state')
                 /\ UNCHANGED failure
    /\ routed' = "none"
    /\ UNCHANGED <<cfg, loopbacks, critiqued, fnvars, mmvars, rrfvars, auxvars>>

----------------------------------------------------------------------------
(* hitl_pause (graph.py hitl_pause_node, hitl.py handle_hitl_request) *)

\* state.update(updates): the "messages" entry of the updates replaces the log
HitlResult(s, config) ==
    IF ~config.hitl_enabled \/ ~s.hitl_request
    THEN [s EXCEPT !.awaiting_human = FALSE, !.hitl_request = FALSE]
    ELSE [s EXCEPT !.hitl_response = TRUE,
                   !.awaiting_human = FALSE,
                   !.hitl_request = FALSE,
                   !.clarified_query = "annotated",
                   !.messages = <<"human">>]

HitlPauseNode ==
    /\ pc = "hitl_pause"
    /\ state' = HitlResult(state, cfg)
    /\ pc' = "supervisor_plan"
    /\ routed' = "none"
    /\ UNCHANGED <<cfg, runs, loopbacks, critiqued, failure, fnvars, mmvars, rrfvars, auxvars>>

----------------------------------------------------------------------------
(* Scheduler harness: _find_next_task applied to arbitrary plans *)

\* task i carries id i and depends on nothing, on its predecessor, on its
\* successor or on both (ids 0 and n + 1 are carried by no task)
FnShapes == [status : TaskStatus, deps : SUBSET {"prev", "next"}]

FnPlan(n, f) ==
    [i \in 1..n |->
        [id |-> i, role |-> "researcher", status |-> f[i].status,
         deps |-> {i - 1 : x \in f[i].deps \cap {"prev"}}
                  \cup {i + 1 : x \in f[i].deps \cap {"next"}},
         retries |-> 0, result |-> FALSE]]

FnPlans == UNION {{FnPlan(n, f) : f \in [1..n -> FnShapes]} : n \in 0..MaxFnLen}

CallFindNextTask ==
    /\ Len(fn_ret) < MaxCalls
    /\ fn_before' = fn_plan
    /\ fn_plan' = FindNextPlan(fn_plan)
    /\ fn_ret' = Append(fn_ret, FindNextTask(fn_plan))
    /\ UNCHANGED <<fn_pre, runvars, mmvars, rrfvars, auxvars>>

----------------------------------------------------------------------------
(* Message-log merge (state.py _merge_messages) and its harness *)

\* merged[a:b] of Python for 0 <= a <= b <= len: the entries a+1 .. b
Slice(seq, a, b) == SubSeq(seq, a + 1, b)

MergeMessages_Tail(existing, new) ==
    LET merged == existing \o new
    IN  IF Len(merged) > MAX_MESSAGES
        THEN Slice(merged, Len(merged) - MAX_MESSAGES, Len(merged))
        ELSE merged

MergeMessages(existing, new) ==
    LET merged == existing \o new
    IN  IF Len(merged) > MAX_MESSAGES
        THEN Slice(merged, 0, KEEP_FIRST)
             \o Slice(merged, Len(merged) - (MAX_MESSAGES - KEEP_FIRST), Len(merged))
        ELSE merged

\* one call: a batch of b new messages, numbered on from the last one appended
CallMergeMessages ==
    \E b \in 0..MaxBatch :
        /\ mm_total + b <= MaxAppended
        /\ mm_log' = MergeMessages(mm_log, [i \in 1..b |-> mm_total + i])
        /\ mm_total' = mm_total + b
        /\ mm_batch' = b
        /\ UNCHANGED <<runvars, fnvars, rrfvars, auxvars>>

----------------------------------------------------------------------------
(* Reciprocal rank fusion (rag.py hybrid_search) and its harness *)

\* a result list gives, per rank, the chunk_id in the document's metadata;
\* NoId stands for a document whose metadata has no chunk_id
ChunkIds == {"A", "B"}
NoId == "none"
ResultLists == UNION {[1..n -> ChunkIds \cup {NoId}] : n \in 0..MaxResults}

\* doc.metadata.get("chunk_id", f"sem-{rank}") and f"kw-{rank}"
DefaultKey(list, rank) ==
    IF list = "sem"
    THEN <<"sem-0", "sem-1", "sem-2", "sem-3", "sem-4", "sem-5">>[rank + 1]
    ELSE <<"kw-0", "kw-1", "kw-2", "kw-3", "kw-4", "kw-5">>[rank + 1]

KeyOf(list, results, rank) ==
    IF results[rank + 1] = NoId THEN DefaultKey(list, rank) ELSE results[rank + 1]

\* scores are exact multiples of 1 / Scale, Scale the product of the
\* denominators RRF_K + rank + 1 over the ranks 0 .. MaxResults - 1
RECURSIVE DenominatorProduct(_)
DenominatorProduct(n) == IF n = 0 THEN 1 ELSE (RRF_K + n) * DenominatorProduct(n - 1)

Scale == DenominatorProduct(MaxResults)

\* 1.0 / (RRF_K + rank + 1)
Reciprocal(rank) == Scale \div (RRF_K + rank + 1)

\* position of key cid in the fused dict, 0 when it is not in it
RECURSIVE FusedIndex(_, _, _)
FusedIndex(fused, cid, i) ==
    IF i > Len(fused) THEN 0
    ELSE IF fused[i].chunk_id = cid THEN i
    ELSE FusedIndex(fused, cid, i + 1)

Accumulate_Overwrite(fused, cid, rank) ==
    LET i == FusedIndex(fused, cid, 1)
    IN  IF i = 0
        THEN Append(fused, [chunk_id |-> cid, rrf_score |-> Reciprocal(rank)])
        ELSE [fused EXCEPT ![i].rrf_score = Reciprocal(rank)]

\* if cid not in fused: fused[cid] = {... "rrf_score": 0.0};
\* fused[cid]["rrf_score"] += 1.0 / (RRF_K + rank + 1)
Accumulate(fused, cid, rank) ==
    LET i == FusedIndex(fused, cid, 1)
    IN  IF i = 0
        THEN Append(fused, [chunk_id |-> cid, rrf_score |-> 0 + Reciprocal(rank)])
        ELSE [fused EXCEPT ![i].rrf_score = @ + Reciprocal(rank)]

\* for rank, (doc, score) in enumerate(results): ...
RECURSIVE FuseList(_, _, _, _)
FuseList(fused, list, results, rank) ==
    IF rank >= Len(results) THEN fused
    ELSE FuseList(Accumulate(fused, KeyOf(list, results, rank), rank),
                  list, results, rank + 1)

Fuse(semantic_results, keyword_results) ==
    FuseList(FuseList(<<>>, "sem", semantic_results, 0), "kw", keyword_results, 0)

\* sorted(..., key=rrf_score, reverse=True): stable, equal scores keep their order
RECURSIVE InsertByScore(_, _, _)
InsertByScore(sorted, item, i) ==
    IF i > Len(sorted) THEN Append(sorted, item)
    ELSE IF sorted[i].rrf_score < item.rrf_score
         THEN SubSeq(sorted, 1, i - 1) \o <<item>> \o SubSeq(sorted, i, Len(sorted))
         ELSE InsertByScore(sorted, item, i + 1)

RECURSIVE SortedByScore(_, _)
SortedByScore(items, n) ==
    IF n = 0 THEN <<>>
    ELSE InsertByScore(SortedByScore(items, n - 1), items[n], 1)

\* "lost in the middle": items at even index are appended, at odd index
\* inserted at the front
RECURSIVE Reordered(_, _)
Reordered(top, n) ==
    IF n = 0 THEN <<>>
    ELSE IF (n - 1) % 2 = 0 THEN Append(Reordered(top, n - 1), top[n])
    ELSE <<top[n]>> \o Reordered(top, n - 1)

HybridResult(fused) ==
    LET ranked == SortedByScore(fused, Len(fused))
        top == SubSeq(ranked, 1, IF Len(ranked) < TOP_K_FINAL THEN Len(ranked) ELSE TOP_K_FINAL)
        out == IF Len(top) > 2 THEN Reordered(top, Len(top)) ELSE top
    IN  [i \in 1..Len(out) |-> out[i].chunk_id]

\* one uncached hybrid_search call on the result lists of the two searches
HybridSearch ==
    /\ ~rrf_called
    /\ rrf_fused' = Fuse(rrf_sem, rrf_kw)
    /\ rrf_result' = HybridResult(rrf_fused')
    /\ rrf_called' = TRUE
    /\ UNCHANGED <<rrf_sem, rrf_kw, runvars, fnvars, mmvars, auxvars>>

----------------------------------------------------------------------------
(* The retrieval cache (rag.py _RetrievalCache, hybrid_search) and its harness *)

Queries == {"q1", "q2"}
NoEntry == [ts |-> -1, value |-> <<>>]     \* self._cache.get(key) is None
CacheLists == UNION {[1..n -> ChunkIds] : n \in 0..MaxCacheResults}
\* seconds that pass between two calls: half the TTL, or a second more
TickSteps == {CACHE_TTL \div 2, CACHE_TTL \div 2 + 1}

\* _RetrievalCache.get returns None: no entry, or time.time() - ts > self._ttl
CacheMiss_AtTtl(cache, now, q) ==
    cache[q] = NoEntry \/ now - cache[q].ts >= CACHE_TTL

CacheMiss(cache, now, q) ==
    cache[q] = NoEntry \/ now - cache[q].ts > CACHE_TTL

\* hybrid_search(query): the cached list, or retrieval, fusion and _search_cache.set;
\* when a search raises, get has already deleted an expired entry
CachedHybridSearch ==
    \E q \in Queries :
        IF ~CacheMiss(rc.cache, rc.now, q)
        THEN rc' = [rc EXCEPT !.last = [query |-> q, outcome |-> "hit",
                                        returned |-> rc.cache[q].value]]
        ELSE \/ \E sem \in CacheLists, kw \in CacheLists :
                    LET res == HybridResult(Fuse(sem, kw))
                    IN  rc' = [rc EXCEPT !.cache[q] = [ts |-> rc.now, value |-> res],
                                         !.last = [query |-> q, outcome |-> "searched",
                                                   returned |-> res]]
             \/ rc' = [rc EXCEPT !.cache[q] = NoEntry,
                                 !.last = [query |-> q, outcome |-> "raised",
                                           returned |-> <<>>]]

\* time passes between calls
Tick ==
    \E d \in TickSteps :
        /\ rc.now + d <= MaxClock
        /\ rc' = [rc EXCEPT !.now = rc.now + d]

CacheNext ==
    \/ CachedHybridSearch /\ UNCHANGED <<runvars, fnvars, mmvars, rrfvars, fan, sy, ce, rl>>
    \/ Tick /\ UNCHANGED <<runvars, fnvars, mmvars, rrfvars, fan, sy, ce, rl>>

----------------------------------------------------------------------------
(* The parallel fan-out of hybrid_search (rag.py semantic_search,         *)
(* keyword_search, hybrid_search) and its harness: the same query is      *)
(* searched again and again on an unchanged store, with an empty cache    *)

\* the documents the store ranks for the query, best first (chunk ids),
\* and the ones it returns under the where_document filter
StoreRankings == UNION {[1..n -> ChunkIds] : n \in 0..MaxStoreLen}

\* similarity_search(query, k=k): the k best
FirstK(list, k) == SubSeq(list, 1, IF Len(list) < k THEN Len(list) ELSE k)

Pending == [state |-> "pending", value |-> <<>>]
NoCall == [first |-> "none", sem |-> "none", kw |-> "none", status |-> "none",
           fused |-> <<>>, result |-> <<>>]

\* semantic_search in its worker thread: the store answers or raises
SemanticSearchReturns ==
    /\ fan.sem = Pending
    /\ \/ fan' = [fan EXCEPT !.sem = [state |-> "ok",
                                      value |-> FirstK(fan.store, TOP_K_SEMANTIC)],
                             !.order = Append(fan.order, "sem")]
       \/ fan' = [fan EXCEPT !.sem = [state |-> "raised", value |-> <<>>],
                             !.order = Append(fan.order, "sem")]
    /\ UNCHANGED <<runvars, fnvars, mmvars, rrfvars, rc, sy, ce, rl>>

\* keyword_search in its worker thread: the filtered query answers; or it
\* raises and semantic_search(query, top_k=k) answers in its place; or that
\* call raises as well, outside the try
KeywordSearchReturns ==
    /\ fan.kw = Pending
    /\ \/ fan' = [fan EXCEPT !.kw = [state |-> "ok",
                                     value |-> FirstK(fan.filtered, TOP_K_KEYWORD)],
                             !.order = Append(fan.order, "kw")]
       \/ fan' = [fan EXCEPT !.kw = [state |-> "fallback",
                                     value |-> FirstK(fan.store, TOP_K_KEYWORD)],
                             !.order = Append(fan.order, "kw")]
       \/ fan' = [fan EXCEPT !.kw = [state |-> "raised", value |-> <<>>],
                             !.order = Append(fan.order, "kw")]
    /\ UNCHANGED <<runvars, fnvars, mmvars, rrfvars, rc, sy, ce, rl>>

\* semantic_results, keyword_results as a search that collects the futures
\* in the order they complete would bind them
Collected_AsCompleted(f) ==
    IF f.order[1] = "sem" THEN <<f.sem.value, f.kw.value>>
                          ELSE <<f.kw.value, f.sem.value>>

\* semantic_results = sem_future.result(); keyword_results = kw_future.result()
Collected(f) ==
    <<f.sem.value, f.kw.value>>

\* what the call does once both workers are done: result() re-raises a
\* worker's exception; otherwise fusion, ranking and reorder
SearchOutcome(f) ==
    LET lists == Collected(f)
        fused == Fuse(lists[1], lists[2])
        raised == f.sem.state = "raised" \/ f.kw.state = "raised"
    IN  [first |-> f.order[1], sem |-> f.sem.state, kw |-> f.kw.state,
         status |-> IF raised THEN "raised" ELSE "ok",
         fused |-> IF raised THEN <<>> ELSE fused,
         result |-> IF raised THEN <<>> ELSE HybridResult(fused)]

\* hybrid_search leaves the with-block (which waits for both workers) and
\* returns or raises; the harness then submits the same query again
HybridSearchCompletes ==
    /\ fan.sem # Pending /\ fan.kw # Pending
    /\ fan' = [fan EXCEPT !.prev = fan.last, !.last = SearchOutcome(fan),
                          !.sem = Pending, !.kw = Pending, !.order = <<>>]
    /\ UNCHANGED <<runvars, fnvars, mmvars, rrfvars, rc, sy, ce, rl>>

FanNext ==
    \/ SemanticSearchReturns
    \/ KeywordSearchReturns
    \/ HybridSearchCompletes

----------------------------------------------------------------------------
(* Confidence aggregation (agents/synthesizer.py synthesizer_node) and its harness *)

\* points of [0, 1], in hundredths
ConfPoints == {(100 * k) \div ConfGrid : k \in 0..ConfGrid}

FinalConfidence_Penalty(skeptic_confidence, citation_ratio, evidence_coverage) ==
    60 * skeptic_confidence + 25 * citation_ratio - 15 * evidence_coverage

\* 0.60 * skeptic_confidence + 0.25 * citation_ratio + 0.15 * evidence_coverage,
\* inputs in hundredths, value in ten-thousandths
FinalConfidence(skeptic_confidence, citation_ratio, evidence_coverage) ==
    60 * skeptic_confidence + 25 * citation_ratio + 15 * evidence_coverage

\* min(count / max(len(state.retrieved_chunks), 1), 1.0), in hundredths
RatioOfChunks(count, chunks) ==
    LET expected == Max2(chunks, 1)
        ratio == (100 * count) \div expected
    IN  IF ratio < 100 THEN ratio ELSE 100

ComputeConfidence ==
    /\ ~sy.done
    /\ sy' = [sy EXCEPT !.final = FinalConfidence(sy.skeptic_confidence,
                                                  sy.citation_ratio,
                                                  sy.evidence_coverage),
                        !.done = TRUE]
    /\ UNCHANGED <<runvars, fnvars, mmvars, rrfvars, rc, fan, ce, rl>>

ConfNext == ComputeConfidence

----------------------------------------------------------------------------
(* Citation extraction (agents/synthesizer.py _build_citations), the audit *)
(* (citation_engine.py CitationEngine) and their harness                   *)

\* retrieved chunks are given by their chunk_id; NoId is a chunk without one
ChunkLists == UNION {[1..n -> ChunkIds \cup {NoId}] : n \in 0..MaxCiteChunks}
\* the numbers re.findall finds in the narrative, in order; int(ref_str)
RefLists == UNION {[1..n -> 0..MaxRef] : n \in 0..MaxRefs}

\* chunk.get("chunk_id", f"chunk-{idx}")
ExtractedId(chunks, idx) ==
    IF chunks[idx + 1] = NoId
    THEN <<"chunk-0", "chunk-1", "chunk-2", "chunk-3", "chunk-4">>[idx + 1]
    ELSE chunks[idx + 1]

Skipped_NoSeen(idx, seen_sources, chunks) ==
    idx < 0 \/ idx >= Len(chunks)

\* if idx in seen_sources or idx < 0 or idx >= len(chunks): continue
Skipped(idx, seen_sources, chunks) ==
    idx \in seen_sources \/ idx < 0 \/ idx >= Len(chunks)

\* the loop over refs from position i on
RECURSIVE BuildFrom(_, _, _, _, _)
BuildFrom(refs, i, chunks, seen_sources, citations) ==
    IF i > Len(refs) THEN citations
    ELSE LET idx == refs[i] - 1
         IN  IF Skipped(idx, seen_sources, chunks)
             THEN BuildFrom(refs, i + 1, chunks, seen_sources, citations)
             ELSE BuildFrom(refs, i + 1, chunks, seen_sources \cup {idx},
                            Append(citations,
                                   [claim |-> "extracted", source |-> refs[i],
                                    evidence |-> <<ExtractedId(chunks, idx)>>]))

BuildCitations(refs, chunks) == BuildFrom(refs, 1, chunks, {}, <<>>)

\* the keys of self._chunks: chunk.get("chunk_id", f"idx-{i}")
EngineKeys(chunks) ==
    {IF chunks[i] = NoId
     THEN <<"idx-0", "idx-1", "idx-2", "idx-3", "idx-4">>[i]
     ELSE chunks[i] : i \in 1..Len(chunks)}

\* not (ev.chunk_id not in self._chunks and not any(c.get("chunk_id") ==
\* ev.chunk_id ...)); c.get gives None for a chunk without chunk_id
KnownChunk(chunks, chunk_id) ==
    \/ chunk_id \in EngineKeys(chunks)
    \/ \E i \in 1..Len(chunks) : chunks[i] # NoId /\ chunks[i] = chunk_id

NoAudit == [valid_citations |-> 0, issues |-> <<>>, orphaned_claims |-> <<>>]

RECURSIVE CheckEvidence_FirstOnly(_, _, _, _, _)
CheckEvidence_FirstOnly(evidence, j, c, chunks, acc) ==
    IF j > 1 THEN acc
    ELSE IF KnownChunk(chunks, evidence[j])
         THEN [acc EXCEPT !.valid_citations = @ + 1]
         ELSE [acc EXCEPT !.issues = Append(@, [kind |-> "unknown_chunk", citation |-> c,
                                                chunk_id |-> evidence[j]])]

\* for ev in cit.evidence, from entry j on; c is the citation's position
RECURSIVE CheckEvidence(_, _, _, _, _)
CheckEvidence(evidence, j, c, chunks, acc) ==
    IF j > Len(evidence) THEN acc
    ELSE CheckEvidence(evidence, j + 1, c, chunks,
            IF KnownChunk(chunks, evidence[j])
            THEN [acc EXCEPT !.valid_citations = @ + 1]
            ELSE [acc EXCEPT !.issues = Append(@, [kind |-> "unknown_chunk", citation |-> c,
                                                   chunk_id |-> evidence[j]])])

\* for cit in report.citations, from citation c on
RECURSIVE AuditFrom(_, _, _, _)
AuditFrom(citations, c, chunks, acc) ==
    IF c > Len(citations) THEN acc
    ELSE AuditFrom(citations, c + 1, chunks,
            IF citations[c].evidence = <<>>
            THEN [acc EXCEPT !.issues = Append(@, [kind |-> "no_evidence", citation |-> c,
                                                   chunk_id |-> ""]),
                             !.orphaned_claims = Append(@, citations[c].claim)]
            ELSE CheckEvidence(citations[c].evidence, 1, c, chunks, acc))

\* CitationEngine(chunks).validate_report(report): the CitationAudit, without
\* uncited_statements (a function of the report's text alone)
Audit(citations, chunks) ==
    LET tally == AuditFrom(citations, 1, chunks, NoAudit)
    IN  [total_citations |-> Len(citations),
         valid_citations |-> tally.valid_citations,
         issues |-> tally.issues,
         orphaned_claims |-> tally.orphaned_claims]

\* coverage_score = valid_citations / max(len(report.citations), 1), kept as
\* the fraction num / den
CoverageScore(audit) ==
    [num |-> audit.valid_citations, den |-> Max2(audit.total_citations, 1)]

\* citations = _build_citations(response, state.retrieved_chunks); they
\* become report.citations
BuildCitationsCall ==
    /\ ~ce.built
    /\ ce' = [ce EXCEPT !.report = BuildCitations(ce.refs, ce.chunks), !.built = TRUE]
    /\ UNCHANGED <<runvars, fnvars, mmvars, rrfvars, rc, fan, sy, rl>>

\* a validate_report that drops the citations without evidence from the report
ValidateReport_Pruning ==
    /\ ce.built
    /\ Len(ce.audits) < MaxAudits
    /\ ce' = [ce EXCEPT !.audits = Append(@, Audit(ce.report, ce.chunks)),
                        !.report = SelectSeq(@, LAMBDA cit : cit.evidence # <<>>)]
    /\ UNCHANGED <<runvars, fnvars, mmvars, rrfvars, rc, fan, sy, rl>>

\* validate_report(report): it assigns neither to the report nor to the engine
ValidateReport ==
    /\ ce.built
    /\ Len(ce.audits) < MaxAudits
    /\ ce' = [ce EXCEPT !.audits = Append(@, Audit(ce.report, ce.chunks))]
    /\ UNCHANGED <<runvars, fnvars, mmvars, rrfvars, rc, fan, sy, rl>>

ExtractNext ==
    \/ BuildCitationsCall
    \/ ValidateReport

\* reports built by hand, as the tests do: any claims and evidence ids
AuditChunkLists == UNION {[1..n -> {"A", NoId}] : n \in 0..MaxAuditChunks}
EvidenceLists == UNION {[1..n -> {"A", "Z"}] : n \in 0..MaxEvidence}
HandCitations ==
    {[claim |-> cl, source |-> 0, evidence |-> ev] :
        cl \in {"supported", "contradicted"}, ev \in EvidenceLists}
Reports == UNION {[1..n -> HandCitations] : n \in 0..MaxCitations}

AuditNext == ValidateReport

\* a to_dict() whose verdict also asks for a report without uncited statements
ToDict_NoUncited(audit, uncited) ==
    [total_citations |-> audit.total_citations,
     valid_citations |-> audit.valid_citations,
     issues |-> audit.issues,
     orphaned_claims |-> audit.orphaned_claims,
     uncited_statements_count |-> uncited,
     coverage_score |-> CoverageScore(audit),
     passes_audit |-> /\ Len(audit.issues) = 0
                      /\ 10 * CoverageScore(audit).num >= 7 * CoverageScore(audit).den
                      /\ uncited = 0]

\* CitationAudit.to_dict(); uncited is len(self.uncited_statements);
\* coverage_score >= 0.7 is compared on the fraction
ToDict(audit, uncited) ==
    [total_citations |-> audit.total_citations,
     valid_citations |-> audit.valid_citations,
     issues |-> audit.issues,
     orphaned_claims |-> audit.orphaned_claims,
     uncited_statements_count |-> uncited,
     coverage_score |-> CoverageScore(audit),
     passes_audit |-> /\ Len(audit.issues) = 0
                      /\ 10 * CoverageScore(audit).num >= 7 * CoverageScore(audit).den]

\* engine.validate_report(report).to_dict()
AuditToDict ==
    /\ ce.built
    /\ ce.dicts = <<>>
    /\ ce' = [ce EXCEPT !.audits = Append(@, Audit(ce.report, ce.chunks)),
                        !.dicts = Append(@, ToDict(Audit(ce.report, ce.chunks), ce.uncited))]
    /\ UNCHANGED <<runvars, fnvars, mmvars, rrfvars, rc, fan, sy, rl>>

VerdictNext == AuditToDict

----------------------------------------------------------------------------
(* The rate limiter (llm_utils.py RateLimiter) and its harness *)

Threads == 1..MaxThreads
\* seconds that pass between two steps: half the window, or a second more
LimiterTicks == {RATE_WINDOW \div 2, RATE_WINDOW \div 2 + 1}

Expired_HalfWindow(ts, now) == ts < now - RATE_WINDOW \div 2

\* self._timestamps[0] < now - 60
Expired(ts, now) == ts < now - RATE_WINDOW

\* while self._timestamps and self._timestamps[0] < now - 60: popleft()
RECURSIVE Purged(_, _)
Purged(timestamps, now) ==
    IF timestamps # <<>> /\ Expired(Head(timestamps), now)
    THEN Purged(Tail(timestamps), now)
    ELSE timestamps

\* one pass of acquire's loop by thread t, under self._lock: a thread that
\* calls acquire, or one that wakes from time.sleep(0.5), purges and then
\* either records now and returns or goes (back) to sleep
AcquirePass ==
    \E t \in Threads :
        LET kept == Purged(rl.timestamps, rl.now)
        IN  /\ IF Len(kept) < rl.max_rpm
               THEN rl' = [rl EXCEPT !.timestamps = Append(kept, rl.now),
                                     !.pc[t] = "idle",
                                     !.granted = Append(@, rl.now)]
               ELSE rl' = [rl EXCEPT !.timestamps = kept, !.pc[t] = "sleeping"]
            /\ UNCHANGED <<runvars, fnvars, mmvars, rrfvars, rc, fan, sy, ce>>

\* time passes
LimiterTick ==
    \E d \in LimiterTicks :
        /\ rl.now + d <= MaxLimiterClock
        /\ rl' = [rl EXCEPT !.now = rl.now + d]
        /\ UNCHANGED <<runvars, fnvars, mmvars, rrfvars, rc, fan, sy, ce>>

LimiterNext ==
    \/ AcquirePass
    \/ LimiterTick

----------------------------------------------------------------------------
(* Specifications *)

RunIdle ==
    /\ pc = "idle" /\ state = InitialState(0)
    /\ cfg = [hitl_enabled |-> FALSE, max_skeptic_challenges |-> 0,
              max_research_iterations |-> 1]
    /\ runs = 0 /\ routed = "none" /\ loopbacks = 0 /\ critiqued = -1
    /\ failure = "none"

FnIdle == fn_plan = <<>> /\ fn_before = <<>> /\ fn_ret = <<>> /\ fn_pre = <<>>

MmIdle == mm_log = <<>> /\ mm_total = 0 /\ mm_batch = 0

RrfIdle ==
    /\ rrf_sem = <<>> /\ rrf_kw = <<>>
    /\ rrf_fused = <<>> /\ rrf_result = <<>> /\ rrf_called = FALSE

\* a new process: the cache is empty and no call has been made
CacheIdle ==
    rc = [cache |-> [q \in Queries |-> NoEntry], now |-> 0,
          last |-> [query |-> "none", outcome |-> "none", returned |-> <<>>]]

FanIdle ==
    fan = [store |-> <<>>, filtered |-> <<>>, sem |-> Pending, kw |-> Pending,
           order |-> <<>>, prev |-> NoCall, last |-> NoCall]

ConfIdle ==
    sy = [skeptic_confidence |-> 0, citation_ratio |-> 0, evidence_coverage |-> 0,
          final |-> 0, done |-> FALSE]

CiteIdle ==
    ce = [chunks |-> <<>>, refs |-> <<>>, report |-> <<>>, audits |-> <<>>,
          built |-> FALSE, uncited |-> 0, dicts |-> <<>>]

\* RateLimiter(max_rpm) before any call
LimiterIdle ==
    rl = [max_rpm |-> 1, timestamps |-> <<>>, now |-> 0,
          pc |-> [t \in Threads |-> "idle"], granted |-> <<>>]

AuxIdle == CacheIdle /\ FanIdle /\ ConfIdle /\ CiteIdle /\ LimiterIdle

\* run_masis: graph.invoke(initial_state), START -> supervisor_plan
Init ==
    /\ pc = "supervisor_plan"
    /\ \E m \in 0..MaxIterations : state = InitialState(m)
    /\ cfg \in Configs
    /\ runs = 0
    /\ routed = "none"
    /\ loopbacks = 0
    /\ critiqued = -1
    /\ failure = "none"
    /\ FnIdle
    /\ MmIdle
    /\ RrfIdle
    /\ AuxIdle

Next ==
    \/ SupervisorPlan
    \/ SupervisorRoute
    \/ ResearcherNode
    \/ SkepticNode
    \/ SynthesizerNode
    \/ HitlPauseNode

Spec == Init /\ [][Next]_vars

\* every node returns (the external calls answer or raise, the human replies)
FairSpec == Spec /\ WF_vars(Next)

FnInit ==
    /\ RunIdle
    /\ fn_plan \in FnPlans
    /\ fn_before = fn_plan
    /\ fn_pre = fn_plan
    /\ fn_ret = <<>>
    /\ MmIdle
    /\ RrfIdle
    /\ AuxIdle

FnNext == CallFindNextTask

FnSpec == FnInit /\ [][FnNext]_vars

\* a run configured with max_iterations = LongIterations
LongInit ==
    /\ pc = "supervisor_plan"
    /\ state = InitialState(LongIterations)
    /\ cfg \in Configs
    /\ runs = 0
    /\ routed = "none"
    /\ loopbacks = 0
    /\ critiqued = -1
    /\ failure = "none"
    /\ FnIdle
    /\ MmIdle
    /\ RrfIdle
    /\ AuxIdle

LongSpec == LongInit /\ [][Next]_vars

MergeInit == RunIdle /\ FnIdle /\ MmIdle /\ RrfIdle /\ AuxIdle

MergeNext == CallMergeMessages

MergeSpec == MergeInit /\ [][MergeNext]_vars

RrfInit ==
    /\ RunIdle /\ FnIdle /\ MmIdle /\ AuxIdle
    /\ rrf_sem \in ResultLists
    /\ rrf_kw \in ResultLists
    /\ rrf_fused = <<>> /\ rrf_result = <<>> /\ rrf_called = FALSE

RrfNext == HybridSearch

RrfSpec == RrfInit /\ [][RrfNext]_vars

CacheInit == RunIdle /\ FnIdle /\ MmIdle /\ RrfIdle /\ AuxIdle

CacheSpec == CacheInit /\ [][CacheNext]_vars

FanInit ==
    /\ RunIdle /\ FnIdle /\ MmIdle /\ RrfIdle /\ CacheIdle /\ ConfIdle /\ CiteIdle /\ LimiterIdle
    /\ \E st \in StoreRankings, fl \in StoreRankings :
          fan = [store |-> st, filtered |-> fl, sem |-> Pending, kw |-> Pending,
                 order |-> <<>>, prev |-> NoCall, last |-> NoCall]

FanSpec == FanInit /\ [][FanNext]_vars

ConfInit ==
    /\ RunIdle /\ FnIdle /\ MmIdle /\ RrfIdle /\ CacheIdle /\ FanIdle /\ CiteIdle /\ LimiterIdle
    /\ \E s \in ConfPoints, c \in ConfPoints, e \in ConfPoints :
          sy = [skeptic_confidence |-> s, citation_ratio |-> c, evidence_coverage |-> e,
                final |-> 0, done |-> FALSE]

ConfSpec == ConfInit /\ [][ConfNext]_vars

\* the synthesizer's narrative and chunks, before _build_citations
ExtractInit ==
    /\ RunIdle /\ FnIdle /\ MmIdle /\ RrfIdle /\ CacheIdle /\ FanIdle /\ ConfIdle /\ LimiterIdle
    /\ \E ch \in ChunkLists, rf \in RefLists :
          ce = [chunks |-> ch, refs |-> rf, report |-> <<>>, audits |-> <<>>,
                built |-> FALSE, uncited |-> 0, dicts |-> <<>>]

ExtractSpec == ExtractInit /\ [][ExtractNext]_vars

\* a report and an engine over some chunks, before the first audit
AuditInit ==
    /\ RunIdle /\ FnIdle /\ MmIdle /\ RrfIdle /\ CacheIdle /\ FanIdle /\ ConfIdle /\ LimiterIdle
    /\ \E ch \in AuditChunkLists, rp \in Reports :
          ce = [chunks |-> ch, refs |-> <<>>, report |-> rp, audits |-> <<>>,
                built |-> TRUE, uncited |-> 0, dicts |-> <<>>]

AuditSpec == AuditInit /\ [][AuditNext]_vars

\* a report with some number of uncited statements in its text and an engine
\* over some chunks, before the audit
VerdictInit ==
    /\ RunIdle /\ FnIdle /\ MmIdle /\ RrfIdle /\ CacheIdle /\ FanIdle /\ ConfIdle /\ LimiterIdle
    /\ \E ch \in AuditChunkLists, rp \in Reports, n \in 0..MaxUncited :
          ce = [chunks |-> ch, refs |-> <<>>, report |-> rp, audits |-> <<>>,
                built |-> TRUE, uncited |-> n, dicts |-> <<>>]

VerdictSpec == VerdictInit /\ [][VerdictNext]_vars

LimiterInit ==
    /\ RunIdle /\ FnIdle /\ MmIdle /\ RrfIdle /\ CacheIdle /\ FanIdle /\ ConfIdle /\ CiteIdle
    /\ \E m \in 1..MaxRpm :
          rl = [max_rpm |-> m, timestamps |-> <<>>, now |-> 0,
                pc |-> [t \in Threads |-> "idle"], granted |-> <<>>]

LimiterSpec == LimiterInit /\ [][LimiterNext]_vars

----------------------------------------------------------------------------
(* Properties of the scheduler, checked under FnSpec *)

FnCalled == Len(fn_ret) >= 1
FnLast == fn_ret[Len(fn_ret)]

\* tasks of plan tasks that are pending with every dependency completed
Runnable(tasks) ==
    {i \in DOMAIN tasks :
        /\ tasks[i].status = "pending"
        /\ tasks[i].deps \subseteq CompletedIds(tasks)}

\* C4: the task _find_next_task returns has every id of its depends_on among
\* the ids of the tasks that are completed at the time of the call.
C4_ReturnedDepsCompleted ==
    (FnCalled /\ FnLast # 0) =>
        \A d \in fn_before[FnLast].deps :
            \E j \in DOMAIN fn_before :
                fn_before[j].id = d /\ fn_before[j].status = "completed"

\* a task with a non-empty, completed dependency set was returned
C4_Witness ==
    /\ FnCalled /\ FnLast # 0
    /\ fn_before[FnLast].deps # {}

\* C5: _find_next_task returns the first task in insertion order that is
\* pending with all dependencies completed, flips exactly that task to
\* in_progress and leaves every other task and the plan's length unchanged;
\* when there is no such task it returns None and changes nothing.
C5_FirstRunnableFlipped ==
    FnCalled =>
        /\ Len(fn_plan) = Len(fn_before)
        /\ IF Runnable(fn_before) = {}
           THEN FnLast = 0 /\ fn_plan = fn_before
           ELSE /\ FnLast \in Runnable(fn_before)
                /\ \A j \in Runnable(fn_before) : FnLast <= j
                /\ fn_plan[FnLast] = [fn_before[FnLast] EXCEPT !.status = "in_progress"]
                /\ \A i \in DOMAIN fn_before : i # FnLast => fn_plan[i] = fn_before[i]

\* a task was returned although a later task of the plan was runnable as well
C5_Witness ==
    /\ FnCalled /\ FnLast # 0
    /\ \E j \in Runnable(fn_before) : j > FnLast

\* C6 as stated: a second call in a row returns None.
C6_SecondCallNone == Len(fn_ret) >= 2 => fn_ret[2] = 0

\* C6 amended: a second call in a row never returns the task the first call
\* returned; it returns None exactly when the plan before the first call had
\* at most one pending task with all dependencies completed, and otherwise
\* the next such task in insertion order.
C6_SecondCallNextRunnable ==
    Len(fn_ret) >= 2 =>
        /\ fn_ret[1] # 0 => fn_ret[2] # fn_ret[1]
        /\ fn_ret[2] = 0 <=> Cardinality(Runnable(fn_pre)) <= 1
        /\ fn_ret[2] # 0 =>
              /\ fn_ret[2] \in Runnable(fn_pre) \ {fn_ret[1]}
              /\ \A j \in Runnable(fn_pre) \ {fn_ret[1]} : fn_ret[2] <= j

\* two calls were made, the first returned a task and the second returned None
C6_Witness == Len(fn_ret) >= 2 /\ fn_ret[1] # 0 /\ fn_ret[2] = 0

----------------------------------------------------------------------------
(* Properties of the run, checked under Spec (C1 under FairSpec) *)

Over == pc \in {"END", "RAISED"}
AtRouting == pc = "supervisor_route" /\ state.plan_set
Tasks == state.sub_tasks
FailedRetryable(tasks) ==
    {i \in DOMAIN tasks : tasks[i].status = "failed" /\ tasks[i].retries < 2}

\* C1: every run eventually reaches TERMINATED; no execution of the graph
\* goes on forever (a run that raises has stopped as well).
C1_EventuallyTerminated == <>Over

\* C2: on a ROUTING entry with a plan and iteration_count >= max_iterations
\* the supervisor sets should_end and the run ends without routing to a
\* specialist; no task is touched (no retries incremented, nothing appended)
\* and iteration_count stays.
C2_CeilingForcesEnd ==
    [][(AtRouting /\ state.iteration_count >= state.max_iterations) =>
          /\ state'.should_end
          /\ pc' = "END"
          /\ state'.sub_tasks = state.sub_tasks
          /\ state'.iteration_count = state.iteration_count
          /\ runs' = runs]_vars

\* the ceiling ended a run in which a retryable failed task was waiting
C2_Witness ==
    /\ pc = "END" /\ routed = "ceiling"
    /\ FailedRetryable(Tasks) # {}

\* C3: with max_iterations = 0 no specialist step is executed at any point
\* of the run.
C3_NoSpecialistAtZero == state.max_iterations = 0 => runs = 0 /\ pc \notin Roles

\* C7: every run that has ended has a final report, and no run ends by raising.
C7_ReportAlwaysProduced ==
    /\ pc = "END" => state.final_report.present
    /\ pc # "RAISED"

\* C8: when a specialist's external call still fails after the call-boundary
\* retries, the current SubTask is recorded as failed and control is back at
\* ROUTING; the run is not aborted.
C8_FailureBecomesTaskFailure ==
    (failure = "external_call" /\ runs > 0) =>
        /\ pc = "supervisor_route"
        /\ \E i \in DOMAIN Tasks :
              Tasks[i].id = state.current_task_id /\ Tasks[i].status = "failed"

\* C9: at ROUTING below the iteration ceiling the first failed task with
\* retries < 2 gets retries + 1, becomes pending and is routed to its role;
\* no task's retries exceeds 2; a failed task with retries = 2 is never
\* routed again and stays failed for the rest of the run.
C9_RetryPolicy ==
    [][/\ (AtRouting /\ state.iteration_count < state.max_iterations
                     /\ FailedRetryable(Tasks) # {}) =>
            LET r == CHOOSE i \in FailedRetryable(Tasks) :
                        \A j \in FailedRetryable(Tasks) : i <= j
            IN  /\ state'.sub_tasks[r].retries = Tasks[r].retries + 1
                /\ state'.sub_tasks[r].status = "pending"
                /\ state'.current_task_id = Tasks[r].id
                /\ pc' = Tasks[r].role
                /\ \A i \in DOMAIN Tasks : i # r => state'.sub_tasks[i].retries = Tasks[i].retries
       /\ \A i \in DOMAIN state'.sub_tasks : state'.sub_tasks[i].retries <= 2
       /\ \A i \in DOMAIN Tasks :
            (pc # "supervisor_plan" /\ Tasks[i].status = "failed" /\ Tasks[i].retries = 2) =>
                /\ state'.sub_tasks[i] = Tasks[i]
                /\ pc' \in Roles => state'.current_task_id # Tasks[i].id]_vars

\* a failed task has just been retried: it is pending, has retries = 1 and
\* its specialist runs next
C9_Witness ==
    /\ routed = "retry" /\ pc \in Roles
    /\ \E i \in DOMAIN Tasks :
          /\ Tasks[i].id = state.current_task_id /\ Tasks[i].role = pc
          /\ Tasks[i].retries = 1 /\ Tasks[i].status = "pending"

----------------------------------------------------------------------------
(* Properties of the research/critique loop and of the graph's edges *)

\* the plan starts with the three tasks of StandardPlan (in any status)
StandardPrefix(tasks) ==
    /\ Len(tasks) >= 3
    /\ \A i \in 1..3 :
          /\ tasks[i].id = StandardPlan[i].id
          /\ tasks[i].role = StandardPlan[i].role
          /\ tasks[i].deps = StandardPlan[i].deps

\* C11: after a loop-back on the plan researcher -> skeptic -> synthesizer,
\* the appended re-validation skeptic task has been executed (it is
\* completed) by the time the synthesizer task is about to run.
C11_RevalidationBeforeSynthesis ==
    (pc = "synthesizer" /\ StandardPrefix(Tasks)) =>
        \A i \in 4..Len(Tasks) :
            Tasks[i].role = "skeptic" => Tasks[i].status = "completed"

\* dependency id d can never become completed in plan tasks: no task carries
\* it, or the task that does is needs_human_input or failed with its retries
\* used up
NeverCompletes(tasks, d) ==
    \A j \in DOMAIN tasks :
        tasks[j].id = d =>
            \/ tasks[j].status = "needs_human_input"
            \/ tasks[j].status = "failed" /\ tasks[j].retries >= 2

\* pending tasks of the plan that wait for such a dependency
StuckTasks(tasks) ==
    {i \in DOMAIN tasks :
        /\ tasks[i].status = "pending"
        /\ \E d \in tasks[i].deps : NeverCompletes(tasks, d)}

\* a pending task waits for a dependency that never completes and no task
\* is runnable
Deadlocked(tasks) == StuckTasks(tasks) # {} /\ Runnable(tasks) = {}

\* the plan as ROUTING sees it once the step that just ran is accounted for
AfterCurrentStep(s) ==
    [i \in DOMAIN s.sub_tasks |->
        IF s.sub_tasks[i].id = s.current_task_id /\ s.sub_tasks[i].status = "in_progress"
        THEN [s.sub_tasks[i] EXCEPT !.status = "completed"]
        ELSE s.sub_tasks[i]]

\* C12 as stated: a run that is deadlocked (a pending task waits for a
\* dependency that never completes, nothing else is runnable) is not over
\* while iteration_count < max_iterations.
C12_StallsUntilCeiling ==
    (pc = "END" /\ ~state.final_report.present /\ Deadlocked(Tasks)) =>
        state.iteration_count >= state.max_iterations

\* C12 amended: a deadlocked run does not stall.  The ROUTING step that finds
\* no failed task to retry, no loop-back due and no runnable task ends the
\* run at once, below the iteration ceiling, counting one iteration and
\* leaving the stuck tasks pending; a PLANNING step whose plan is deadlocked
\* from the start ends the run as well.
C12_DeadlockEndsRun ==
    [][/\ (/\ AtRouting /\ state.iteration_count < state.max_iterations
           /\ FailedRetryable(Tasks) = {}
           /\ ~(/\ state.critique.present /\ ~state.critique.passes_review
                /\ state.skeptic_rounds < cfg.max_skeptic_challenges)
           /\ Deadlocked(AfterCurrentStep(state))) =>
             /\ pc' = "END"
             /\ state'.should_end
             /\ state'.iteration_count = state.iteration_count + 1
             /\ StuckTasks(state'.sub_tasks) = StuckTasks(AfterCurrentStep(state))
       /\ (/\ pc = "supervisor_plan" /\ pc' \notin {"RAISED", "hitl_pause"}
           /\ \A i \in DOMAIN state'.sub_tasks : state'.sub_tasks[i].status # "in_progress"
           /\ Deadlocked(state'.sub_tasks)) =>
             pc' = "END" /\ state'.iteration_count = 0]_vars

\* ROUTING ended a deadlocked run below the iteration ceiling
C12_Witness ==
    /\ pc = "END" /\ routed = "finished"
    /\ state.iteration_count < state.max_iterations
    /\ Deadlocked(Tasks)

\* C13: after a researcher or skeptic step the next step is ROUTING; after a
\* synthesizer step the run is at TERMINATED, without another ROUTING step,
\* whatever tasks of the plan are still pending.
C13_SpecialistEdges ==
    [][/\ pc \in {"researcher", "skeptic"} => pc' = "supervisor_route"
       /\ pc = "synthesizer" => pc' = "END"]_vars

\* what the edges do keep: a specialist step that returns is
\* followed by ROUTING (researcher, skeptic) or by END (synthesizer)
ReturningSpecialistEdges ==
    [][/\ (pc \in {"researcher", "skeptic"} /\ pc' # "RAISED") => pc' = "supervisor_route"
       /\ (pc = "synthesizer" /\ pc' # "RAISED") => pc' = "END"]_vars

\* the plan as the planner produced it: the task a PLANNING step selected is
\* pending again (the planner returns no task that is in_progress)
Produced(tasks) ==
    [i \in DOMAIN tasks |->
        IF tasks[i].status = "in_progress"
        THEN [tasks[i] EXCEPT !.status = "pending"]
        ELSE tasks[i]]

\* C14: a PLANNING step that produces a plan goes to HITL_PAUSE exactly when
\* the plan has a needs_human_input task and human-in-the-loop is enabled;
\* then no task is selected or set in_progress and no specialist has run.
\* Otherwise it sets the first runnable task in_progress, makes it the
\* current task and goes to its specialist, or ends when none is runnable.
C14_PlanningEdge ==
    [][(pc = "supervisor_plan" /\ pc' # "RAISED") =>
          LET plan == Produced(state'.sub_tasks)
              human == \E i \in DOMAIN plan : plan[i].status = "needs_human_input"
          IN  IF human /\ cfg.hitl_enabled
              THEN /\ pc' = "hitl_pause"
                   /\ state'.sub_tasks = plan
                   /\ state'.current_task_id = NoTask
                   /\ state'.next_agent = "none"
                   /\ runs' = 0
              ELSE /\ pc' # "hitl_pause"
                   /\ IF Runnable(plan) = {}
                      THEN pc' = "END" /\ state'.sub_tasks = plan
                      ELSE LET first == CHOOSE i \in Runnable(plan) :
                                            \A j \in Runnable(plan) : i <= j
                           IN  /\ pc' = plan[first].role
                               /\ state'.current_task_id = plan[first].id
                               /\ state'.sub_tasks =
                                    [plan EXCEPT ![first].status = "in_progress"]]_vars

\* the run pauses for the human although the plan has a runnable task
C14_Witness ==
    /\ pc = "hitl_pause" /\ runs = 0
    /\ Runnable(Tasks) # {}

\* awaiting_human is set by supervisor_plan only (supervisor.py:111) and
\* cleared by hitl_pause before any ROUTING step; should_trigger_hitl
\* (hitl.py:84-110) has no caller.  Hence the edge from supervisor_route to
\* hitl_pause is never taken: HITL_PAUSE is entered from PLANNING only.
HitlOnlyAfterPlanning ==
    [][/\ pc = "supervisor_route" => pc' # "hitl_pause"
       /\ pc' = "hitl_pause" => pc = "supervisor_plan"
       /\ pc' = "supervisor_route" => ~state'.awaiting_human]_vars

----------------------------------------------------------------------------
(* Properties of the whiteboard message log *)

IsPrefix(a, b) == Len(a) <= Len(b) /\ \A i \in 1..Len(a) : a[i] = b[i]

\* C16: the message log is append-only: for every step of a run (planning,
\* routing, each specialist, the HITL resume) the log before the step is a
\* prefix of the log after it; the HITL resume keeps all earlier messages
\* and adds the human message at the end.
C16_LogAppendOnly ==
    [][/\ IsPrefix(state.messages, state'.messages)
       /\ (pc = "hitl_pause" /\ state'.hitl_response) =>
              state'.messages = Append(state.messages, "human")]_vars

\* C17: after any sequence of _merge_messages calls (batches of at most
\* MaxBatch messages) the stored log has at most 50 entries; once more than
\* 50 messages were appended it holds exactly the first 5 messages ever
\* appended followed by the 45 most recently appended, in their order.
C17_MergeCap ==
    /\ Len(mm_log) <= 50
    /\ mm_total > 50 =>
          /\ Len(mm_log) = 50
          /\ \A i \in 1..5 : mm_log[i] = i
          /\ \A i \in 1..45 : mm_log[5 + i] = mm_total - 45 + i

\* 60 messages were appended: the log holds 1..5 and 16..60
C17_Witness ==
    /\ mm_total = 60 /\ mm_batch > 0
    /\ Len(mm_log) = 50 /\ mm_log[5] = 5 /\ mm_log[6] = 16 /\ mm_log[50] = 60

\* C18: in every reachable state of a run, whatever max_iterations is, the
\* message log of the run state has at most 50 entries.
C18_RunLogCapped == Len(state.messages) <= MAX_MESSAGES

----------------------------------------------------------------------------
(* Frame of the task collection *)

\* C19: within one plan the task collection is append-only: a step other
\* than PLANNING removes or reorders no task and changes no existing task's
\* id or depends_on (nor its role); remediation appends at the end.
C19_TasksAppendOnly ==
    [][pc # "supervisor_plan" =>
          /\ Len(state'.sub_tasks) >= Len(Tasks)
          /\ \A i \in DOMAIN Tasks :
                /\ state'.sub_tasks[i].id = Tasks[i].id
                /\ state'.sub_tasks[i].deps = Tasks[i].deps
                /\ state'.sub_tasks[i].role = Tasks[i].role]_vars

\* a loop-back has appended its two tasks behind the planned ones and the
\* new researcher step has run
C19_Witness ==
    /\ pc = "supervisor_route" /\ runs >= 3
    /\ Len(Tasks) >= 4
    /\ Tasks[Len(Tasks) - 1].role = "researcher"
    /\ Tasks[Len(Tasks)].role = "skeptic"
    /\ Tasks[Len(Tasks)].deps = {Tasks[Len(Tasks) - 1].id}
    /\ Tasks[1].status = "completed"

----------------------------------------------------------------------------
(* Properties of reciprocal rank fusion, checked under RrfSpec *)

\* 0-based ranks at which chunk id c occurs in a result list
RanksOf(results, c) == {i - 1 : i \in {j \in DOMAIN results : results[j] = c}}

RECURSIVE SumOfReciprocals(_)
SumOfReciprocals(ranks) ==
    IF ranks = {} THEN 0
    ELSE LET r == CHOOSE r \in ranks : TRUE
         IN  (Scale \div (60 + r + 1)) + SumOfReciprocals(ranks \ {r})

InFused(c) == \E i \in DOMAIN rrf_fused : rrf_fused[i].chunk_id = c

FusedScore(c) ==
    rrf_fused[CHOOSE i \in DOMAIN rrf_fused : rrf_fused[i].chunk_id = c].rrf_score

\* the best (smallest) rank in a non-empty set of ranks
BestRank(ranks) == CHOOSE r \in ranks : \A q \in ranks : r <= q
WorstRank(ranks) == CHOOSE r \in ranks : \A q \in ranks : r >= q

\* every chunk id in a list has an entry whose score is the sum of
\* 1/(60 + r + 1) over its ranks r in the two lists
ScoresAreRankSums ==
    \A c \in ChunkIds :
        /\ InFused(c) <=> (RanksOf(rrf_sem, c) \cup RanksOf(rrf_kw, c)) # {}
        /\ InFused(c) =>
              FusedScore(c) = SumOfReciprocals(RanksOf(rrf_sem, c))
                              + SumOfReciprocals(RanksOf(rrf_kw, c))

\* semantic [A, B], keyword [A]: fusedScore(A) > fusedScore(B)
AsymmetricExample ==
    (rrf_sem = <<"A", "B">> /\ rrf_kw = <<"A">>) => FusedScore("A") > FusedScore("B")

\* C20 as stated: each chunk's fused score is the sum over the lists it
\* appears in of 1/(60 + r + 1) for its rank r; with semantic [A, B] and
\* keyword [A], A outscores B; a chunk present in both lists outscores every
\* chunk present in only one list at the same or a worse rank (here: at a
\* rank no better than any rank of the chunk present in both).
C20_RankFusion ==
    rrf_called =>
        /\ ScoresAreRankSums
        /\ AsymmetricExample
        /\ \A x, y \in ChunkIds :
              LET xs == RanksOf(rrf_sem, x)       xk == RanksOf(rrf_kw, x)
                  ys == RanksOf(rrf_sem, y)       yk == RanksOf(rrf_kw, y)
              IN  (/\ xs # {} /\ xk # {}
                   /\ (ys = {}) # (yk = {})
                   /\ BestRank(ys \cup yk) >= WorstRank(xs \cup xk)) =>
                      FusedScore(x) > FusedScore(y)

\* C20 amended: the fused score of a chunk id is the sum of 1/(60 + r + 1)
\* over every rank r at which the id occurs in either list (one term per
\* occurrence); semantic [A, B] and keyword [A] give A the higher score; a
\* chunk present in both lists outscores a chunk whose id occurs exactly
\* once, in one list only, at a rank no better than the best rank of the
\* chunk present in both.
C20_RankFusionPerOccurrence ==
    rrf_called =>
        /\ ScoresAreRankSums
        /\ AsymmetricExample
        /\ \A x, y \in ChunkIds :
              LET xs == RanksOf(rrf_sem, x)       xk == RanksOf(rrf_kw, x)
                  ys == RanksOf(rrf_sem, y)       yk == RanksOf(rrf_kw, y)
              IN  (/\ xs # {} /\ xk # {}
                   /\ Cardinality(ys \cup yk) = 1 /\ Cardinality(ys) + Cardinality(yk) = 1
                   /\ BestRank(ys \cup yk) >= BestRank(xs \cup xk)) =>
                      FusedScore(x) > FusedScore(y)

\* a chunk in both lists was fused with a chunk that is only in the keyword
\* list, at the rank at which the first has its best rank
C20_Witness ==
    /\ rrf_called
    /\ RanksOf(rrf_sem, "A") = {0} /\ RanksOf(rrf_kw, "A") = {1}
    /\ RanksOf(rrf_sem, "B") = {} /\ RanksOf(rrf_kw, "B") = {0}
    /\ FusedScore("A") > FusedScore("B")

\* the fused entries in the order hybrid_search ranks them (best first)
Ranked == SortedByScore(rrf_fused, Len(rrf_fused))

\* C21: whenever hybrid_search returns more than 2 results, the top-ranked
\* chunk is at the first or the last position of the returned sequence and
\* the second-ranked chunk is at the other end.
C21_BestAtBothEnds ==
    (rrf_called /\ Len(rrf_result) > 2) =>
        {rrf_result[1], rrf_result[Len(rrf_result)]}
            = {Ranked[1].chunk_id, Ranked[2].chunk_id}

----------------------------------------------------------------------------
(* Properties of the retrieval cache, checked under CacheSpec *)

\* the query has an entry that was stored at most CACHE_TTL seconds ago
StoredRecently(q) ==
    rc.cache[q] # NoEntry /\ rc.now - rc.cache[q].ts <= CACHE_TTL

\* this step is a hybrid_search call for query q
IsSearchCall(q) == rc'.now = rc.now /\ rc' # rc /\ rc'.last.query = q

\* C22: a hybrid_search call for a query whose entry was stored at most 300
\* seconds ago returns the stored list without running retrieval and leaves
\* the cache as it is; a call for a query with no entry or with an older
\* entry runs retrieval and, when retrieval returns, stores the new list as
\* the query's entry; the entries of other queries are not touched.
C22_CacheTtl ==
    [][\A q \in Queries : IsSearchCall(q) =>
          /\ StoredRecently(q) =>
                /\ rc'.last.outcome = "hit"
                /\ rc'.last.returned = rc.cache[q].value
                /\ rc'.cache = rc.cache
          /\ ~StoredRecently(q) =>
                /\ rc'.last.outcome \in {"searched", "raised"}
                /\ rc'.last.outcome = "searched" =>
                      rc'.cache[q] = [ts |-> rc.now, value |-> rc'.last.returned]
          /\ \A o \in Queries \ {q} : rc'.cache[o] = rc.cache[o]]_vars

\* a hit on an entry that is exactly CACHE_TTL seconds old, while the other
\* query has an entry of its own
C22_Witness ==
    /\ rc.last.outcome = "hit"
    /\ rc.now - rc.cache[rc.last.query].ts = CACHE_TTL
    /\ \E o \in Queries \ {rc.last.query} : rc.cache[o] # NoEntry

\* an expired entry was replaced by a new search
C22_WitnessExpired ==
    /\ rc.last.outcome = "searched"
    /\ rc.now > CACHE_TTL
    /\ rc.cache[rc.last.query].ts = rc.now

----------------------------------------------------------------------------
(* Properties of the fan-out, checked under FanSpec *)

\* two consecutive calls in which the searches answered in the same way
SameAnswers == fan.prev.sem = fan.last.sem /\ fan.prev.kw = fan.last.kw

\* C23: for fixed semantic and keyword result lists, the fused scores and the
\* order of the returned sequence do not depend on which of the two parallel
\* searches completes first; equal scores are ordered the same way each time.
C23_FanOutOrderFree ==
    (fan.prev.status = "ok" /\ fan.last.status = "ok" /\ SameAnswers) =>
        /\ fan.prev.fused = fan.last.fused
        /\ fan.prev.result = fan.last.result

\* two calls that differ in which search completed first, returning two
\* chunks of equal fused score
C23_Witness ==
    /\ fan.prev.status = "ok" /\ fan.last.status = "ok" /\ SameAnswers
    /\ fan.prev.first # fan.last.first
    /\ Len(fan.last.fused) = 2
    /\ fan.last.fused[1].rrf_score = fan.last.fused[2].rrf_score

\* what hybrid_search would return from the semantic results alone
SemanticOnlyResult == HybridResult(Fuse(FirstK(fan.store, TOP_K_SEMANTIC), <<>>))

\* C24: when the keyword retrieval raises (and the semantic search answers),
\* hybrid_search does not raise, and the chunks it returns are, in set and
\* order, those that fusion of the semantic list alone would return.
C24_KeywordFailureDegrades ==
    (fan.last.sem = "ok" /\ fan.last.kw \in {"fallback", "raised"}) =>
        /\ fan.last.status = "ok"
        /\ fan.last.result = SemanticOnlyResult

\* the same, for the calls in which the fallback search answered
C24_FallbackAnswered ==
    (fan.last.sem = "ok" /\ fan.last.kw = "fallback") =>
        /\ fan.last.status = "ok"
        /\ fan.last.result = SemanticOnlyResult

----------------------------------------------------------------------------
(* Properties of the confidence aggregation, checked under ConfSpec *)

\* C25: for inputs in [0, 1], final_confidence = 0.60 * skeptic_confidence +
\* 0.25 * citation_ratio + 0.15 * evidence_coverage lies in [0, 1] and does
\* not decrease when any one input is raised with the other two fixed.
C25_ConfidenceBoundedMonotone ==
    sy.done =>
        /\ 0 <= sy.final /\ sy.final <= 10000
        /\ \A x \in ConfPoints :
              /\ x >= sy.skeptic_confidence =>
                    FinalConfidence(x, sy.citation_ratio, sy.evidence_coverage) >= sy.final
              /\ x >= sy.citation_ratio =>
                    FinalConfidence(sy.skeptic_confidence, x, sy.evidence_coverage) >= sy.final
              /\ x >= sy.evidence_coverage =>
                    FinalConfidence(sy.skeptic_confidence, sy.citation_ratio, x) >= sy.final

\* the formula applied to inputs strictly inside (0, 1), none of them maximal
C25_Witness ==
    /\ sy.done
    /\ sy.skeptic_confidence \notin {0, 100}
    /\ sy.citation_ratio \notin {0, 100}
    /\ sy.evidence_coverage \notin {0, 100}
    /\ sy.final > 5000 /\ sy.final < 8000

----------------------------------------------------------------------------
(* The synthesizer's report, checked under Spec *)

\* C26: whenever the synthesizer executes and its model call answers, for
\* any number of extracted citations (zero or more) it produces a final
\* report, and the report's confidence level is HIGH iff final_confidence >=
\* 0.8, MEDIUM iff 0.5 <= final_confidence < 0.8 and LOW otherwise, where
\* citation_ratio and evidence_coverage are the citation count and the
\* number of distinct cited chunks over max(chunk count, 1), capped at 1.
C26_ReportGraded ==
    /\ failure # "attribute_error"
    /\ state.final_report.present =>
          LET final == FinalConfidence(state.final_report.skeptic_confidence,
                                       RatioOfChunks(state.citations, state.retrieved_chunks),
                                       RatioOfChunks(state.citations, state.retrieved_chunks))
              level == state.final_report.confidence
          IN  /\ level = "high" <=> final >= 8000
              /\ level = "medium" <=> (final >= 5000 /\ final < 8000)
              /\ level = "low" <=> final < 5000

----------------------------------------------------------------------------
(* Properties of citation extraction, checked under ExtractSpec *)

\* the source numbers of the narrative that name a retrieved chunk
CitableSources ==
    {ce.refs[p] : p \in 1..Len(ce.refs)} \cap (1..Len(ce.chunks))

\* where a source number first occurs in the narrative
FirstOccurrence(n) ==
    CHOOSE p \in 1..Len(ce.refs) :
        ce.refs[p] = n /\ \A q \in 1..(p - 1) : ce.refs[q] # n

\* C27: extraction yields exactly one citation per distinct source number N
\* of the narrative with 1 <= N <= chunk count, in order of first occurrence,
\* each with exactly one evidence entry, taken from the chunk at index N - 1;
\* numbers out of range (0 included) yield none, and there are never more
\* citations than chunks.
C27_OneCitationPerSource ==
    ce.built =>
        /\ Len(ce.report) = Cardinality(CitableSources)
        /\ {ce.report[i].source : i \in 1..Len(ce.report)} = CitableSources
        /\ \A i \in 1..Len(ce.report), j \in 1..Len(ce.report) :
              i < j => FirstOccurrence(ce.report[i].source)
                         < FirstOccurrence(ce.report[j].source)
        /\ \A i \in 1..Len(ce.report) :
              LET chunk == ce.chunks[ce.report[i].source]
              IN  /\ Len(ce.report[i].evidence) = 1
                  /\ chunk # NoId => ce.report[i].evidence[1] = chunk
        /\ Len(ce.report) <= Len(ce.chunks)

\* a narrative that cites source 2 before source 1, repeats a source and
\* names sources 0 and 3 with two chunks retrieved
C27_Witness ==
    /\ ce.built
    /\ Len(ce.chunks) = 2
    /\ Len(ce.report) = 2
    /\ ce.report[1].source = 2
    /\ \E p \in 1..Len(ce.refs) : ce.refs[p] \notin 1..Len(ce.chunks)

\* C28: the citations extracted from a narrative, audited against the same
\* chunk list (chunks without a chunk_id included), are all accepted: the
\* audit reports no issue and valid_citations = total_citations.
C28_ExtractedCitationsPassAudit ==
    \A k \in 1..Len(ce.audits) :
        /\ ce.audits[k].issues = <<>>
        /\ ce.audits[k].valid_citations = ce.audits[k].total_citations

\* the same, for chunk lists in which every chunk carries a chunk_id
C28_WithChunkIds ==
    (\A i \in 1..Len(ce.chunks) : ce.chunks[i] # NoId) =>
        C28_ExtractedCitationsPassAudit

----------------------------------------------------------------------------
(* Properties of the audit, checked under AuditSpec *)

\* the citations of the report that carry no evidence
Orphans == {c \in 1..Len(ce.report) : ce.report[c].evidence = <<>>}

\* the evidence entries of the report, and those whose chunk id is the
\* chunk_id of a retrieved chunk
EvidenceEntries ==
    {<<c, j>> \in (1..Len(ce.report)) \X (1..MaxEvidence + 1) :
        j <= Len(ce.report[c].evidence)}

CitesRetrievedChunk(e) ==
    \E i \in 1..Len(ce.chunks) : ce.chunks[i] = ce.report[e[1]].evidence[e[2]]

\* C29: in an audit, every citation without evidence contributes exactly one
\* issue and one orphaned claim; every evidence entry whose chunk id is not
\* among the retrieved chunks contributes exactly one issue; valid_citations
\* is the number of evidence entries whose chunk id is among the retrieved
\* chunks; the counts depend on chunk ids only, so a citation whose claim
\* contradicts its chunk is counted valid all the same.
C29_AuditCounts ==
    \A k \in 1..Len(ce.audits) :
        LET a == ce.audits[k]
            unknown == {e \in EvidenceEntries : ~CitesRetrievedChunk(e)}
        IN  /\ Len(a.orphaned_claims) = Cardinality(Orphans)
            /\ Cardinality({i \in 1..Len(a.issues) : a.issues[i].kind = "no_evidence"})
                  = Cardinality(Orphans)
            /\ \A c \in Orphans :
                  Cardinality({i \in 1..Len(a.issues) : a.issues[i].citation = c}) = 1
            /\ \A e \in unknown :
                  Cardinality({i \in 1..Len(a.issues) :
                                  /\ a.issues[i].kind = "unknown_chunk"
                                  /\ a.issues[i].citation = e[1]
                                  /\ a.issues[i].chunk_id = ce.report[e[1]].evidence[e[2]]})
                     = Cardinality({f \in unknown :
                                      /\ f[1] = e[1]
                                      /\ ce.report[f[1]].evidence[f[2]]
                                            = ce.report[e[1]].evidence[e[2]]})
            /\ Len(a.issues) = Cardinality(Orphans) + Cardinality(unknown)
            /\ a.valid_citations = Cardinality(EvidenceEntries \ unknown)

\* an audited report with a citation without evidence and a citation whose
\* claim contradicts its chunk, with one known and one unknown evidence entry
C29_Witness ==
    /\ Len(ce.audits) >= 1
    /\ Orphans # {}
    /\ \E c \in 1..Len(ce.report) :
          /\ ce.report[c].claim = "contradicted"
          /\ \E j \in 1..Len(ce.report[c].evidence), l \in 1..Len(ce.report[c].evidence) :
                /\ CitesRetrievedChunk(<<c, j>>)
                /\ ~CitesRetrievedChunk(<<c, l>>)

\* C30: validate_report is read-only and idempotent: a call changes neither
\* the report nor the engine's chunks, and a second call on the same report
\* returns the same audit as the first.
C30_AuditReadOnlyIdempotent ==
    [][/\ ce'.report = ce.report
       /\ ce'.chunks = ce.chunks
       /\ (Len(ce.audits) >= 1 /\ Len(ce'.audits) > Len(ce.audits)) =>
              ce'.audits[Len(ce'.audits)] = ce.audits[Len(ce.audits)]]_vars

\* a report with issues, audited twice
C30_Witness ==
    /\ Len(ce.audits) = 2
    /\ ce.audits[2].issues # <<>>
    /\ ce.audits[2].valid_citations > 0

----------------------------------------------------------------------------
(* Properties of the rate limiter, checked under LimiterSpec *)

\* the grants made in the 60 seconds up to and including time t
GrantsInWindow(t) ==
    {i \in 1..Len(rl.granted) : t - RATE_WINDOW <= rl.granted[i] /\ rl.granted[i] <= t}

\* no 60-second window ending at a grant holds more than max_rpm grants
WindowBudget ==
    \A i \in 1..Len(rl.granted) :
        Cardinality(GrantsInWindow(rl.granted[i])) <= rl.max_rpm

\* a sleeping thread returns only with a grant of its own, made after some
\* earlier grant has left the window
BlockedUntilSlotFrees ==
    \A t \in Threads :
        (rl.pc[t] = "sleeping" /\ rl'.pc[t] = "idle") =>
            /\ Len(rl'.granted) = Len(rl.granted) + 1
            /\ \E i \in 1..Len(rl.granted) : rl.granted[i] < rl'.now - RATE_WINDOW

\* C31: with any number of threads calling acquire, no 60-second window ever
\* holds more than max_rpm grants; and a caller that found the window full
\* stays blocked (it neither returns nor fails) until a grant that was in the
\* window has left it.
C31_RateLimiterSafety == []WindowBudget /\ [][BlockedUntilSlotFrees]_vars

\* a thread sleeps on a full window while the budget has been granted at one
\* instant, and the earliest grant is exactly 60 seconds old
C31_Witness ==
    /\ \E t \in Threads : rl.pc[t] = "sleeping"
    /\ Len(rl.timestamps) = rl.max_rpm
    /\ rl.now - rl.timestamps[1] = RATE_WINDOW

\* a thread that slept has been granted a slot after the window moved on
C31_WitnessGranted ==
    /\ Len(rl.granted) > rl.max_rpm
    /\ rl.now > RATE_WINDOW

----------------------------------------------------------------------------
(* Further properties of the run, checked under Spec *)

\* the supervisor_route branches that route or end through the scheduler
CountedBranches == {"retry", "loopback", "finished", "scheduled"}

\* C32: in every run started with iteration_count = 0, iteration_count never
\* exceeds max_iterations, it grows by exactly one on each routing step that
\* routes (retry, loop-back, scheduler) or ends through the scheduler, and
\* the run executes at most max_iterations + 1 specialist steps.
C32_IterationBudget ==
    /\ [](/\ state.iteration_count <= state.max_iterations
          /\ runs <= state.max_iterations + 1)
    /\ [][(pc = "supervisor_route" /\ routed' \in CountedBranches) =>
              state'.iteration_count = state.iteration_count + 1]_vars

\* a run that used its whole budget: max_iterations routed steps and
\* max_iterations + 1 specialist executions
C32_Witness ==
    /\ state.max_iterations >= 2
    /\ state.iteration_count = state.max_iterations
    /\ runs = state.max_iterations + 1

\* the tasks of the plan that carry the id in current_task_id
CurrentTasks == {i \in DOMAIN state.sub_tasks : state.sub_tasks[i].id = state.current_task_id}

\* C33: whenever control passes to a specialist, on every routing path
\* (planner, scheduler, retry, loop-back), the task named by current_task_id
\* is in_progress and all of its dependencies are completed, for any initial
\* plan, plans with tasks already marked failed included.
C33_RoutedTaskInProgress ==
    pc \in Roles =>
        /\ CurrentTasks # {}
        /\ \A i \in CurrentTasks :
              /\ state.sub_tasks[i].status = "in_progress"
              /\ DepsMet(state.sub_tasks[i], CompletedIds(state.sub_tasks))

\* the same, for the steps in which the planner or the scheduler selected the task
C33_SchedulerPaths ==
    (pc \in Roles /\ routed \in {"none", "scheduled"}) =>
        /\ CurrentTasks # {}
        /\ \A i \in CurrentTasks :
              /\ state.sub_tasks[i].status = "in_progress"
              /\ DepsMet(state.sub_tasks[i], CompletedIds(state.sub_tasks))

\* C34: a run never routes more loop-backs than max_skeptic_challenges; a
\* loop-back consumes a stored failing critique (the critique is absent after
\* the step) and appends exactly two tasks to the plan, so the plan grows
\* through loop-backs by at most 2 * max_skeptic_challenges tasks
C34_LoopBacksBounded ==
    /\ [](loopbacks <= cfg.max_skeptic_challenges)
    /\ [][(pc = "supervisor_route" /\ routed' = "loopback") =>
            /\ state.critique.present
            /\ ~state'.critique.present
            /\ loopbacks' = loopbacks + 1
            /\ Len(state'.sub_tasks) = Len(state.sub_tasks) + 2]_vars
    /\ [][(pc = "supervisor_route" /\ routed' # "loopback") =>
            /\ loopbacks' = loopbacks
            /\ Len(state'.sub_tasks) = Len(state.sub_tasks)]_vars

\* a loop-back has been routed and its researcher task has run
C34_Witness ==
    /\ loopbacks = 1 /\ pc = "supervisor_route"
    /\ state.skeptic_rounds = 1 /\ ~state.critique.present

\* C35: when the synthesizer produces its report after at least one critique
\* pass has completed, the skeptic_confidence it uses is the confidence_score
\* of the most recent critique pass; it uses the default 0.0 only when no
\* critique pass ever ran
C35_UsesLatestCritique ==
    [][(pc = "synthesizer" /\ state'.final_report.present) =>
          /\ critiqued >= 0 =>
                state'.final_report.skeptic_confidence = critiqued
          /\ ~state.critique.present => critiqued = -1]_vars

\* the stored critique, while there is one, is the most recent critique pass
C35_StoredCritiqueIsLatest ==
    state.critique.present => state.critique.confidence_score = critiqued

\* C36: when PLANNING re-runs after the human replied at HITL_PAUSE, the
\* reply is still part of the run state: clarified_query still carries the
\* user-clarification annotation and the human-tagged message is still in
\* the message log
C36_ReplySurvivesReplan ==
    [][(pc = "supervisor_plan" /\ state.hitl_response /\ pc' # "RAISED") =>
          /\ state'.clarified_query = "annotated"
          /\ \E i \in DOMAIN state'.messages : state'.messages[i] = "human"]_vars

\* once the human replied, the human-tagged message stays in the log
C36_HumanMessageKept ==
    state.hitl_response => \E i \in DOMAIN state.messages : state.messages[i] = "human"

InProgress(tasks) == {i \in DOMAIN tasks : tasks[i].status = "in_progress"}

\* C37: at most one SubTask is in_progress in any reachable state, and a task
\* that reached completed keeps that status in every later step on the same
\* plan (every step other than PLANNING, which installs a new plan)
C37_OneInProgressCompletedFinal ==
    /\ [](Cardinality(InProgress(state.sub_tasks)) <= 1)
    /\ [][pc # "supervisor_plan" =>
            \A i \in DOMAIN state.sub_tasks :
                state.sub_tasks[i].status = "completed" =>
                    /\ i \in DOMAIN state'.sub_tasks
                    /\ state'.sub_tasks[i].status = "completed"]_vars

\* a loop-back was routed on the standard plan: the first two tasks are
\* completed, the synthesizer is the one task in progress and the two
\* appended tasks are pending (the researcher had reached its cap)
C37_Witness ==
    /\ Len(state.sub_tasks) = 5 /\ pc = "synthesizer"
    /\ InProgress(state.sub_tasks) = {3}
    /\ state.sub_tasks[1].status = "completed"
    /\ state.sub_tasks[2].status = "completed"
    /\ state.sub_tasks[4].status = "pending"
    /\ state.sub_tasks[5].status = "pending"

TaskIds(tasks) == {tasks[i].id : i \in DOMAIN tasks}

\* the positions left after repeatedly removing every task none of whose
\* dependencies is the id of a task still left: empty iff depends_on has no
\* cycle (a self-dependency is a cycle of length one)
RECURSIVE CyclicCore(_, _)
CyclicCore(tasks, left) ==
    LET ids == {tasks[i].id : i \in left}
        free == {i \in left : tasks[i].deps \cap ids = {}}
    IN  IF free = {} THEN left ELSE CyclicCore(tasks, left \ free)

\* a task DAG: every dependency names a task of the plan, no task depends on
\* itself and depends_on has no cycle
IsDag(tasks) ==
    /\ \A i \in DOMAIN tasks : tasks[i].deps \subseteq TaskIds(tasks)
    /\ \A i \in DOMAIN tasks : tasks[i].id \notin tasks[i].deps
    /\ CyclicCore(tasks, DOMAIN tasks) = {}

\* C38: if the plan is acyclic, has no self-dependency and only depends on
\* ids present in it, the same holds after every step other than PLANNING
\* (which installs a new plan): the tasks a loop-back appends introduce no
\* cycle, no self-loop and no dependency on a missing task
C38_DagPreserved ==
    [][(pc # "supervisor_plan" /\ IsDag(state.sub_tasks)) =>
          IsDag(state'.sub_tasks)]_vars

\* a loop-back has appended its two tasks to the standard plan, a DAG
C38_Witness ==
    /\ routed = "loopback" /\ Len(state.sub_tasks) = 5
    /\ state.sub_tasks[5].deps = {state.sub_tasks[4].id}
    /\ state.sub_tasks[3].deps = {2}
    /\ IsDag(state.sub_tasks)

----------------------------------------------------------------------------
(* Properties of the audit's statistics, checked under AuditSpec *)

\* C39: in every audit valid_citations never exceeds total_citations and
\* coverage_score lies in [0, 1], also for reports whose citations carry
\* more than one evidence entry
C39_CoverageBounded ==
    \A k \in 1..Len(ce.audits) :
        LET a == ce.audits[k]
            coverage == CoverageScore(a)
        IN  /\ a.valid_citations <= a.total_citations
            /\ 0 <= coverage.num
            /\ coverage.num <= coverage.den

\* with at most one evidence entry per citation the bounds hold
C39_SingleEvidenceBounded ==
    (\A c \in 1..Len(ce.report) : Len(ce.report[c].evidence) <= 1) =>
        \A k \in 1..Len(ce.audits) :
            /\ ce.audits[k].valid_citations <= ce.audits[k].total_citations
            /\ CoverageScore(ce.audits[k]).num <= CoverageScore(ce.audits[k]).den

----------------------------------------------------------------------------
(* Properties of the audit verdict, checked under VerdictSpec *)

\* C40: a report passes the audit iff the audit has zero issues and the
\* report has at least one citation: with zero issues and at least one
\* citation coverage_score is at least 0.7, a report with no citations never
\* passes, and the number of uncited statements does not enter the verdict
C40_PassesAudit ==
    \A k \in 1..Len(ce.dicts) :
        LET d == ce.dicts[k]
            clean == d.issues = <<>> /\ d.total_citations >= 1
        IN  /\ d.passes_audit <=> clean
            /\ clean => 10 * d.coverage_score.num >= 7 * d.coverage_score.den
            /\ d.total_citations = 0 => ~d.passes_audit

\* a report with a citation and an uncited statement passes the audit
C40_Witness ==
    /\ Len(ce.dicts) = 1
    /\ ce.dicts[1].passes_audit
    /\ ce.dicts[1].total_citations >= 1
    /\ ce.dicts[1].uncited_statements_count >= 1

\* a report without citations, hence without issues, fails the audit
C40_WitnessNoCitations ==
    /\ Len(ce.dicts) = 1
    /\ ce.report = <<>> /\ ce.dicts[1].issues = <<>>
    /\ ~ce.dicts[1].passes_audit

============================================================================
